---- MODULE Spec2Model ----
(***************************************************************************)
(* QuakeMigrate (QMigrate): the SeisScan scanner of signal/scan.py and the *)
(* travel-time look-up table of core/model.py.                             *)
(*                                                                         *)
(* Times of the trigger are integers counted in samples: one unit is       *)
(* ss = 1 / sampling_rate (scan.py:1165), so "DT + ss == next DT" is       *)
(* "DT + 1 = next DT".  marginal_window and minimum_repeat are in the same *)
(* unit.  Indices into data frames are 0-based as in the source; At(s, i)  *)
(* is s.iloc[i].                                                           *)
(***************************************************************************)
EXTENDS Integers, Sequences, FiniteSets, TLC

VARIABLES
    \* ---- SeisScan configuration (DefaultSeisScan.__init__, scan.py:236-270)
    marginal_window,      \* self.marginal_window
    minimum_repeat,       \* self.minimum_repeat
    detection_threshold,  \* self.detection_threshold
    \* ---- trigger(start_time, end_time) and _trigger_scn
    start_time,           \* argument of trigger()
    end_time,             \* argument of trigger()
    posArgmax,            \* what np.argmax(Series) returns in the installed pandas
    scn,                  \* the .scnmseed file read by output.read_decscan()
    tpc,                  \* position of the trigger() call
    decscan_reads,        \* number of read_decscan() calls made by trigger()
    coa_val,              \* local coa_val of _trigger_scn
    c,                    \* local c of _trigger_scn (start of the next run)
    init_events,          \* local init_events of _trigger_scn
    events,               \* value returned by _trigger_scn (<<>> is None)
    triggered_file,       \* what output.write_triggered_events() has written
    pass,                 \* 1: the run on the file; 2: the run on its own events
    first_events,         \* the events of pass 1, kept to compare with pass 2
    \* ---- the scanner object and its detect() / locate() calls
    lookup_table,         \* the LUT file given to SeisScan.__init__
    decimate,             \* self.decimate
    p_onset_win,          \* self.p_onset_win = [sta, lta]
    s_onset_win,          \* self.s_onset_win = [sta, lta]
    time_step,            \* self.time_step
    pre_pad_user,         \* self.pre_pad as the user left it (None: unset)
    lut,                  \* self.lut
    pre_pad,              \* self.pre_pad (None or a value)
    post_pad,             \* self.post_pad
    spc,                  \* position of the detect() / locate() call
    calls,                \* number of detect() / locate() calls started
    last_call,            \* the call started last
    step_i,               \* loop variable i of _continuous_compute
    trig_events,          \* events read by locate()
    evt_i,                \* position of locate()'s event loop
    win,                  \* the window the call scanned last: bounds and pads
    dtmax,                \* event_coa_val_dtmax of the call's last re-scan
    event_rows,           \* rows the call gave to output.write_event()
    picks_written,        \* event ids the call gave to output.write_picks()
    out_log,              \* messages of the call: <<kind, event id>>
    decscan_out,          \* sample times the call gave to output.write_decscan()
    \* ---- a Grid3D / LUT object and the operations made on it
    grid,                 \* the attributes of the object
    gop,                  \* the operation made last and how it ended
    gops,                 \* number of operations made
    gq,                   \* the xyz2index calls made on the object as it is
    \* ---- one _arrival_trigger call
    pk,                   \* its picks frame, loop position and how it ended
    \* ---- the windows given to _compute
    cw,                   \* the window read last and what _compute returned
    \* ---- the onset mode of a scanner and the onset functions of its calls
    os                    \* set_onset_centred, _onset_centred, the last onset

trigVars2 == <<posArgmax, scn, tpc, decscan_reads, coa_val, c, init_events,
               events, triggered_file, pass, first_events>>

trigVars == <<start_time, end_time, trigVars2>>

cfgVars == <<marginal_window, minimum_repeat, detection_threshold>>

scanCfg == <<lookup_table, decimate, p_onset_win, s_onset_win, time_step,
             pre_pad_user>>

scanVars == <<scanCfg, lut, pre_pad, post_pad, spc, calls, last_call, step_i,
              trig_events, evt_i, win, dtmax, event_rows, picks_written,
              out_log, decscan_out>>

gridVars == <<grid, gop, gops, gq>>

pickVars == <<pk>>

computeVars == <<cw>>

onsetVars == <<os>>

otherVars == <<gridVars, pickVars, computeVars, onsetVars>>

restVars == <<cfgVars, trigVars, scanVars, pickVars, computeVars, onsetVars>>

vars == <<cfgVars, trigVars, scanVars, gridVars, pickVars, computeVars,
          onsetVars>>

----------------------------------------------------------------------------
(* Bounds of the model *)

\* number of samples in the .scnmseed file
MaxT == 6

\* number of samples in the files of SpecTriggerLong
MaxTLong == 10

\* coalescence values in the file: 0 is below every threshold
CoaValues == {0, 1, 2}

Thresholds == {1, 3}

MarginalWindows == {1, 2}

MinimumRepeats == {0, 1, 2}

\* marginal_window of the scanners that detect() and locate() are called on
ScanMarginalWindows == {1}

\* [start_time, end_time] given to trigger()
Windows == {<<0, MaxT - 1>>, <<1, MaxT - 2>>}

\* samples per second in the scanner's calls
SamplingRate == 10

\* detect() and locate() calls made on one scanner
MaxCalls == 2

\* events in the triggered-events file read by locate()
MaxEvents == 2

\* samples between the CoaTimes of the triggered events
EventSpacing == 100

\* the LUT files: cell_count, cell_size, samples of travel time per cell
LutFileParams == {<<<<3, 2, 1>>, <<2, 2, 3>>, 1>>, <<<<5, 1, 2>>, <<4, 4, 1>>, 2>>}

Decimates == {<<1, 1, 1>>, <<2, 1, 1>>}

\* p_onset_win = [sta, lta] in samples: 0.2 s and 1.0 s (scan.py:241), or
\* 0.5 s and 2.0 s
OnsetWinsP == {<<2, 10>>, <<5, 20>>}

\* s_onset_win = [sta, lta] in samples: 0.3 s and 1.5 s
OnsetWinsS == {<<3, 15>>}

\* time_step in samples: 1 s and 10 s (scan.py:261)
TimeSteps == {10, 100}

\* pre_pad values a user sets, in samples
UserPrePads == {30}

\* start_time of detect(), in samples
DetectStarts == {0, 3}

\* end_time of detect(), in samples after start_time
DetectEnds == {10, 20}

\* samples of a re-scan that carry the high coalescence value
MaxPeaks == 2

----------------------------------------------------------------------------
(* Helpers *)

At(s, i) == s[i + 1]

Max2(a, b) == IF a >= b THEN a ELSE b

SetMax(S) == CHOOSE x \in S : \A y \in S : y <= x

SetMin(S) == CHOOSE x \in S : \A y \in S : x <= y

\* the "no value" of Python; _trigger_scn returns None exactly when it has no
\* event row (scan.py:1246-1247)
None == <<>>

----------------------------------------------------------------------------
(* _trigger_scn *)

\* FilterCoa without the restriction to [start_time, end_time]
FilterCoa_NoWindow(cv) ==
    SelectSeq(cv, LAMBDA r : r.COA >= detection_threshold)

\* scan.py:1151-1155: keep the samples at or above the threshold and inside
\* [start_time, end_time].  COA is the column chosen by normalise_coalescence
\* (scan.py:1148-1149).
FilterCoa(cv) ==
    SelectSeq(cv, LAMBDA r : /\ r.COA >= detection_threshold
                             /\ r.DT >= start_time
                             /\ r.DT <= end_time)

\* scan.py:1175-1179: the inner while, from d; returns the final d
RECURSIVE RunEnd(_, _)
RunEnd(cv, d) ==
    IF At(cv, d).DT + 1 = At(cv, d + 1).DT
    THEN IF (d + 1) + 1 >= Len(cv) - 2
         THEN Len(cv) - 2
         ELSE RunEnd(cv, d + 1)
    ELSE d

\* first position of the maximum of COA over the rows lo..hi (numpy/pandas
\* argmax and idxmax return the first occurrence)
FirstMax(cv, lo, hi) ==
    CHOOSE p \in lo..hi :
        /\ \A q \in lo..hi : At(cv, q).COA <= At(cv, p).COA
        /\ \A q \in lo..(p - 1) : At(cv, q).COA < At(cv, p).COA

\* scan.py:1183: np.argmax(coa_val["COA"].iloc[np.arange(c, d + 1)]).  The
\* slice keeps the labels c..d.  pandas < 1.0 returns the label of the maximum
\* (Series.argmax is idxmax there), pandas >= 1.0 its position in the slice.
ValIdx(cv, lo, hi) ==
    IF posArgmax THEN FirstMax(cv, lo, hi) - lo ELSE FirstMax(cv, lo, hi)

\* Candidate with the window of the run only padded by minimum_repeat
Candidate_NoMargin(cv, lo, hi) ==
    LET val_idx == ValIdx(cv, lo, hi)
    IN  [CoaTime |-> At(cv, val_idx).DT,
         COA_V   |-> At(cv, val_idx).COA,
         COA_X   |-> At(cv, val_idx).X,
         MinTime |-> At(cv, lo).DT - minimum_repeat,
         MaxTime |-> At(cv, hi).DT + minimum_repeat]

\* scan.py:1181-1208: the row appended to init_events for the run c..d
Candidate(cv, lo, hi) ==
    LET val_idx == ValIdx(cv, lo, hi)
        t_min == At(cv, lo).DT
        t_max == At(cv, hi).DT
        t_val == At(cv, val_idx).DT
    IN  [CoaTime |-> t_val,
         COA_V   |-> At(cv, val_idx).COA,
         COA_X   |-> At(cv, val_idx).X,
         MinTime |-> IF (t_val - t_min) < marginal_window
                     THEN t_val - marginal_window - minimum_repeat
                     ELSE t_min - minimum_repeat,
         MaxTime |-> IF (t_max - t_val) < marginal_window
                     THEN t_val + marginal_window + minimum_repeat
                     ELSE t_max + minimum_repeat]

\* SplitAfter with a candidate that starts exactly at MaxTime split off
SplitAfter_Inclusive(ie, i) ==
    /\ i + 1 < Len(ie)
    /\ (At(ie, i).MaxTime - (At(ie, i + 1).CoaTime - marginal_window)) <= 0

\* scan.py:1220: candidate i (0-based) is the last of its event
SplitAfter(ie, i) ==
    /\ i + 1 < Len(ie)
    /\ (At(ie, i).MaxTime - (At(ie, i + 1).CoaTime - marginal_window)) < 0

\* scan.py:1217-1222: evt_num[i]
EvtNum(ie, i) == 1 + Cardinality({k \in 0..(i - 1) : SplitAfter(ie, k)})

\* scan.py:1217-1221: count after the loop (1 when there is no candidate)
EvtCount(ie) ==
    1 + Cardinality({k \in 0..(Len(ie) - 1) : SplitAfter(ie, k)})

\* scan.py:1226-1227: the candidates numbered n, in order
Group(ie, n) ==
    LET idx == {i \in 0..(Len(ie) - 1) : EvtNum(ie, i) = n}
        F[k \in 0..Cardinality(idx)] ==
            IF k = 0 THEN <<>>
            ELSE LET i == CHOOSE i \in idx :
                              Cardinality({j \in idx : j < i}) = k - 1
                 IN  Append(F[k - 1], At(ie, i))
    IN  F[Cardinality(idx)]

\* scan.py:1228: np.argmax(tmp["COA_V"]) on the re-indexed group
GroupMax(tmp) ==
    CHOOSE p \in 0..(Len(tmp) - 1) :
        /\ \A q \in 0..(Len(tmp) - 1) : At(tmp, q).COA_V <= At(tmp, p).COA_V
        /\ \A q \in 0..(p - 1) : At(tmp, q).COA_V < At(tmp, p).COA_V

\* scan.py:1241-1244: the event id is the CoaTime printed without its
\* separators; on integer sample times that is the numeral of the time
EventIdOf(t) == t

\* scan.py:1228-1244: the row of event n
EventRow(ie, n) ==
    LET tmp == Group(ie, n)
        j == GroupMax(tmp)
    IN  [EventNum |-> n,
         CoaTime  |-> At(tmp, j).CoaTime,
         COA_V    |-> At(tmp, j).COA_V,
         COA_X    |-> At(tmp, j).COA_X,
         MinTime  |-> SetMin({tmp[k].MinTime : k \in 1..Len(tmp)}),
         MaxTime  |-> SetMax({tmp[k].MaxTime : k \in 1..Len(tmp)}),
         EventID  |-> EventIdOf(At(tmp, j).CoaTime)]

\* scan.py:1228: np.argmax of an empty group raises ValueError
EventsRaise(ie) == \E n \in 1..EvtCount(ie) : Len(Group(ie, n)) = 0

----------------------------------------------------------------------------
(* trigger() as steps *)

\* the contract on minimum_repeat with the comparison off by one
RepeatCheckFails_OffByOne == minimum_repeat <= marginal_window

\* scan.py:486-488: the contract on minimum_repeat
RepeatCheckFails == minimum_repeat < marginal_window

\* scan.py:444-488
Trigger ==
    /\ tpc = "start"
    /\ tpc' = IF RepeatCheckFails THEN "raised" ELSE "read"
    /\ UNCHANGED <<otherVars, cfgVars, scanVars, start_time, end_time, posArgmax, scn, decscan_reads,
                   coa_val, c, init_events, events, triggered_file, pass,
                   first_events>>

\* scan.py:491
ReadDecscan ==
    /\ tpc = "read"
    /\ coa_val' = scn
    /\ decscan_reads' = decscan_reads + 1
    /\ tpc' = "filter"
    /\ UNCHANGED <<otherVars, cfgVars, scanVars, start_time, end_time, posArgmax, scn, c, init_events,
                   events, triggered_file, pass, first_events>>

\* scan.py:1148-1169
TriggerScnFilter ==
    /\ tpc = "filter"
    /\ coa_val' = FilterCoa(coa_val)
    /\ c' = 0
    /\ init_events' = <<>>
    /\ IF Len(FilterCoa(coa_val)) = 0
       THEN /\ events' = None
            /\ tpc' = "returned"
       ELSE /\ events' = events
            /\ tpc' = "runs"
    /\ UNCHANGED <<otherVars, cfgVars, scanVars, start_time, end_time, posArgmax, scn, decscan_reads,
                   triggered_file, pass, first_events>>

\* scan.py:1171-1212: one turn of the outer while
TriggerScnRun ==
    /\ tpc = "runs"
    /\ c < Len(coa_val) - 1
    /\ LET d == RunEnd(coa_val, c)
       IN  /\ init_events' = Append(init_events, Candidate(coa_val, c, d))
           /\ c' = d + 1
    /\ UNCHANGED <<otherVars, cfgVars, scanVars, start_time, end_time, posArgmax, scn, tpc,
                   decscan_reads, coa_val, events, triggered_file, pass,
                   first_events>>

\* scan.py:1214-1249: numbering, merging and the return
TriggerScnEvents ==
    /\ tpc = "runs"
    /\ ~(c < Len(coa_val) - 1)
    /\ IF EventsRaise(init_events)
       THEN /\ tpc' = "raised"
            /\ events' = events
       ELSE /\ tpc' = "returned"
            /\ events' = [n \in 1..EvtCount(init_events) |->
                              EventRow(init_events, n)]
    /\ UNCHANGED <<otherVars, cfgVars, scanVars, start_time, end_time, posArgmax, scn, decscan_reads,
                   coa_val, c, init_events, triggered_file, pass, first_events>>

\* scan.py:494-497
WriteTriggered ==
    /\ tpc = "returned"
    /\ pass = 1
    /\ triggered_file' = IF events = None THEN triggered_file
                         ELSE Append(triggered_file, events)
    /\ tpc' = "done"
    /\ UNCHANGED <<otherVars, cfgVars, scanVars, start_time, end_time, posArgmax, scn, decscan_reads,
                   coa_val, c, init_events, events, pass, first_events>>

\* The events of one _trigger_scn run given back to _trigger_scn as its
\* coalescence samples (DT = CoaTime, COA = COA_V, X = COA_X), same
\* configuration (scan.py:1146)
EventsAsCoa(ev) ==
    [i \in 1..Len(ev) |->
        [DT |-> ev[i].CoaTime, COA |-> ev[i].COA_V, X |-> ev[i].COA_X]]

FeedBack ==
    /\ tpc = "returned"
    /\ pass = 1
    /\ events # None
    /\ first_events' = events
    /\ coa_val' = EventsAsCoa(events)
    /\ pass' = 2
    /\ tpc' = "filter"
    /\ UNCHANGED <<otherVars, cfgVars, scanVars, start_time, end_time, posArgmax, scn, decscan_reads,
                   c, init_events, events, triggered_file>>

----------------------------------------------------------------------------
(* The look-up table (core/model.py) *)

\* the stations of the LUT, in their order
NStations == 2

Stations == 0..(NStations - 1)

\* the cell indices of a grid with cell_count cc
Cells(cc) ==
    {<<i, j, k>> : i \in 0..(cc[1] - 1), j \in 0..(cc[2] - 1), k \in 0..(cc[3] - 1)}

\* the domain of a 4-D travel-time map [nx, ny, nz, nstations]
MapDomain(cc) ==
    {<<i, j, k, s>> : i \in 0..(cc[1] - 1), j \in 0..(cc[2] - 1),
                      k \in 0..(cc[3] - 1), s \in Stations}

\* A look-up table file as LUT.load() reads it (model.py:1541-1555): a grid
\* and the two travel-time maps.  The times of the file are, in samples,
\* slow * (row-major cell number + station + 1) for P and twice that for S:
\* non-negative, and different in every cell.
LutFile(cc, cs, slow) ==
    [cell_count |-> cc,
     cell_size  |-> cs,
     maps |-> [TIME_P |-> [x \in MapDomain(cc) |->
                   slow * ((x[1] * cc[2] + x[2]) * cc[3] + x[3] + x[4] + 1)],
               TIME_S |-> [x \in MapDomain(cc) |->
                   2 * slow * ((x[1] * cc[2] + x[2]) * cc[3] + x[3] + x[4] + 1)]]]

\* numpy's integer a // b: the floor of the quotient, and 0 when b is 0
FloorDiv(a, b) ==
    IF b > 0 THEN a \div b
    ELSE IF b < 0 THEN (0 - a) \div (0 - b)
    ELSE 0

\* model.py:1121: cell_count of the decimated grid
DecCellCount(cc, ds) == [a \in 1..3 |-> 1 + FloorDiv(cc[a] - 1, ds[a])]

\* the first retained cell without the centring
DecC1_Zero(cc, ds) == <<0, 0, 0>>

\* the first retained cell with the whole remainder put before it
DecC1_NoHalf(cc, ds) ==
    [a \in 1..3 |-> cc[a] - ds[a] * (DecCellCount(cc, ds)[a] - 1) - 1]

\* model.py:1122: first retained cell on each axis
DecC1(cc, ds) ==
    [a \in 1..3 |-> (cc[a] - ds[a] * (DecCellCount(cc, ds)[a] - 1) - 1) \div 2]

\* model.py:1133-1135: map_[c1[0]::ds[0], c1[1]::ds[1], c1[2]::ds[2], :]
\* number of elements of the slice c1::ds of an axis of n cells
SliceLen(n, c1, ds) == IF c1 >= n THEN 0 ELSE (n - c1 + ds - 1) \div ds

\* the shape of the array m on its three grid axes
MapShape(m) ==
    IF DOMAIN m = {} THEN <<0, 0, 0>>
    ELSE [a \in 1..3 |-> 1 + SetMax({x[a] : x \in DOMAIN m})]

DecMap(m, cc, ds) ==
    LET c1 == DecC1(cc, ds)
        shape == [a \in 1..3 |-> SliceLen(MapShape(m)[a], c1[a], ds[a])]
    IN  [x \in MapDomain(shape) |->
            m[<<c1[1] + x[1] * ds[1], c1[2] + x[2] * ds[2],
                c1[3] + x[3] * ds[3], x[4]>>]]

\* model.py:1096-1137: LUT.decimate(ds) with inplace=False returns a copy
Decimate(l, ds) ==
    [cell_count |-> DecCellCount(l.cell_count, ds),
     cell_size  |-> [a \in 1..3 |-> l.cell_size[a] * ds[a]],
     maps |-> [TIME_P |-> DecMap(l.maps.TIME_P, l.cell_count, ds),
               TIME_S |-> DecMap(l.maps.TIME_S, l.cell_count, ds)]]

\* model.py:1183-1185 with np.max: the largest entry of a map
MapMax(m) == SetMax({m[x] : x \in DOMAIN m})

----------------------------------------------------------------------------
(* Scan windows: pads.  Times of the scanner are integers counted in        *)
(* samples; SamplingRate samples make one second.                           *)

\* Python 3 round() of the non-negative rational n / d: to the nearest
\* integer, a tie to the even one
RoundHalfEven(n, d) ==
    LET q == n \div d
        r == n % d
    IN  IF 2 * r < d THEN q
        ELSE IF 2 * r > d THEN q + 1
        ELSE IF q % 2 = 0 THEN q ELSE q + 1

\* scan.py:347-348: post_pad = round(ttmax + ttmax*0.05), whole seconds;
\* ttmax in samples, the result in samples
InitPostPad(ttmax) ==
    SamplingRate * RoundHalfEven(21 * ttmax, 20 * SamplingRate)

\* scan.py:908-909 and 565-566: round(t_length * 0.06), whole seconds
TaperPad(t_length) ==
    SamplingRate * RoundHalfEven(3 * t_length, 50 * SamplingRate)

\* an optional value: <<>> is None, <<v>> is v
Some(v) == <<v>>

Val(o) == o[1]

\* the default pre-pad taken from the P onset window alone
DefaultPrePad_POnly == p_onset_win[2] + 3 * p_onset_win[1]

\* scan.py:435-439 and 557-561: the pre-pad when the user left it unset
DefaultPrePad ==
    Max2(p_onset_win[2], s_onset_win[2]) + 3 * Max2(p_onset_win[1], s_onset_win[1])

PrePadOrDefault == IF pre_pad = None THEN DefaultPrePad ELSE Val(pre_pad)

\* scan.py:990-991: the pads in samples (pre_pad * int(sampling_rate))
PreSmp(w) == w.pre_pad

PosSmp(w) == w.post_pad

\* model.py:1190-1192: the largest sample offset fetch_index gives
TauMax(l) == Max2(MapMax(l.maps.TIME_P), MapMax(l.maps.TIME_S))

----------------------------------------------------------------------------
(* A Grid3D / LUT object.  Positions (grid_centre, centre, xyz) are counted   *)
(* in half units of length, so that half a cell is an integer.              *)

\* values given to the cell_count setter: one element is a scalar, any other
\* length is an array of that shape
CellCountValues == {<<3>>, <<2, 3, 1>>, <<0, 2, 2>>, <<2, 2>>, <<-1>>}

\* values given to the cell_size setter
CellSizeValues == {<<2>>, <<1, 2, 3>>, <<0>>, <<1, -1, 1>>, <<1, 2>>}

\* values given to decimate() as ds
DsValues == {<<1, 1, 1>>, <<2, 1, 1>>, <<3, 2, 2>>, <<0, 1, 1>>, <<-1, 1, 1>>}

\* operations made on one LUT
MaxGridOps == 3

\* operations made on one Grid3D without maps
MaxCentreOps == 4

\* model.py:1029 and 383-438: a LUT holds maps, a bare Grid3D none
OpsBound == IF grid.maps = <<>> THEN MaxCentreOps ELSE MaxGridOps

\* longitude and latitude values, in units of length once projected
LonLatValues == {0, 5}

ElevationValues == {0, 4}

\* the coordinate projection (WGS84) and the grid projections, by number
CoordProjs == {0}

GridProjs == {1, 2}

\* model.py:550-554 and 573-577: np.array(value); a value of size 1 is
\* repeated three times
Repeat3(value) == IF Len(value) = 1 THEN <<value[1], value[1], value[1]>> ELSE value

\* the setter's assertions with 0 let through
SetterRaises_ZeroPasses(value) ==
    \/ Len(value) \notin {1, 3}
    \/ \E a \in 1..Len(value) : value[a] < 0

\* model.py:551-555 and 574-578: the setter's assertions fail
SetterRaises(value) ==
    \/ Len(value) \notin {1, 3}
    \/ \E a \in 1..Len(value) : value[a] <= 0

\* model.py:383-438 and 998-1029: the object after construction; azimuth and
\* dip are 0, the projections and the centre are not set
NewGrid(cc, cs, maps, order) ==
    [cell_count  |-> cc,
     cell_size   |-> cs,
     maps        |-> maps,
     sort_order  |-> order,
     grid_centre |-> <<0, 0, 0>>,
     centre      |-> None,
     longitude   |-> None,
     latitude    |-> None,
     elevation   |-> 0,
     grid_proj   |-> None,
     coord_proj  |-> None]

\* what gop records of an operation
Op(name, arg, inplace, raised) ==
    [name |-> name, arg |-> arg, inplace |-> inplace, raised |-> raised]

\* model.py:548-556: grid.cell_count = value
SetCellCount ==
    /\ gops < OpsBound
    /\ \E value \in CellCountValues :
         /\ gop' = Op("cell_count", value, FALSE, SetterRaises(value))
         /\ grid' = IF SetterRaises(value) THEN grid
                    ELSE [grid EXCEPT !.cell_count = Repeat3(value)]
    /\ gops' = gops + 1
    /\ gq' = None
    /\ UNCHANGED restVars

\* model.py:567-579: grid.cell_size = value
SetCellSize ==
    /\ gops < OpsBound
    /\ \E value \in CellSizeValues :
         /\ gop' = Op("cell_size", value, FALSE, SetterRaises(value))
         /\ grid' = IF SetterRaises(value) THEN grid
                    ELSE [grid EXCEPT !.cell_size = Repeat3(value)]
    /\ gops' = gops + 1
    /\ gq' = None
    /\ UNCHANGED restVars

\* model.py:693-697: xyz2loc(value, inverse=True) with azimuth = dip = 0, in
\* half units; loc2 is twice the cell position
Loc2Xyz(g, loc2) ==
    [a \in 1..3 |->
        g.grid_centre[a] + g.cell_size[a] * (loc2[a] - (g.cell_count[a] - 1))]

\* model.py:1122-1125: twice centre_cell = c1 + cn - 1
CentreCell2(cc, ds) ==
    [a \in 1..3 |-> 2 * DecC1(cc, ds)[a] + ds[a] * (DecCellCount(cc, ds)[a] - 1)]

\* model.py:1096-1137: lut.decimate(ds, inplace).  The object the call leaves
\* behind: the decimated copy it returns, or the object itself when inplace
\* or when the call raises.
LutDecimate ==
    /\ gops < OpsBound
    /\ \E ds \in DsValues, inplace \in BOOLEAN :
         LET cell_count == DecCellCount(grid.cell_count, ds)
             cell_size == [a \in 1..3 |-> grid.cell_size[a] * ds[a]]
             d == Decimate(grid, ds)
         IN  IF SetterRaises(cell_count)
             THEN \* model.py:1126: the cell_count setter raises
                  /\ gop' = Op("decimate", ds, inplace, TRUE)
                  /\ grid' = grid
             ELSE IF SetterRaises(cell_size)
             THEN \* model.py:1127: the cell_size setter raises, cell_count
                  \* is already assigned
                  /\ gop' = Op("decimate", ds, inplace, TRUE)
                  /\ grid' = IF inplace
                             THEN [grid EXCEPT !.cell_count = cell_count]
                             ELSE grid
             ELSE /\ gop' = Op("decimate", ds, inplace, FALSE)
                  /\ grid' = [grid EXCEPT
                                 !.cell_count = d.cell_count,
                                 !.cell_size = d.cell_size,
                                 !.centre = Some(Loc2Xyz(grid,
                                     CentreCell2(grid.cell_count, ds))),
                                 !.maps = d.maps]
    /\ gops' = gops + 1
    /\ gq' = None
    /\ UNCHANGED restVars

\* Python's truth value of an attribute: None and 0 are false; a pyproj.Proj
\* object is true
Truthy(o) == o # None /\ Val(o) # 0

ProjSet(o) == o # None

\* the false easting and northing of projection p
ProjOffset(p) == <<7 * p, 11 * p>>

\* pyproj.transform(p1, p2, x, y) (model.py:514-515, 521-522): each
\* projection is a translation of the plane, a different one per projection
Transform(p1, p2, x, y) ==
    <<x - ProjOffset(p1)[1] + ProjOffset(p2)[1],
      y - ProjOffset(p1)[2] + ProjOffset(p2)[2]>>

\* model.py:513-518: _update_grid_centre(); grid_centre is in half units
UpdateGridCentre(g) ==
    LET xy == Transform(Val(g.coord_proj), Val(g.grid_proj),
                        Val(g.longitude), Val(g.latitude))
    IN  [g EXCEPT !.grid_centre =
            <<2 * xy[1], 2 * xy[2],
              2 * g.elevation - (g.cell_count[3] - 1) * g.cell_size[3]>>]

\* model.py:590-595: the longitude setter
LongitudeSet(g, value) ==
    LET h == [g EXCEPT !.longitude = Some(value)]
    IN  IF ProjSet(h.grid_proj) /\ ProjSet(h.coord_proj) /\ Truthy(h.latitude)
        THEN UpdateGridCentre(h) ELSE h

\* model.py:603-608: the latitude setter
LatitudeSet(g, value) ==
    LET h == [g EXCEPT !.latitude = Some(value)]
    IN  IF ProjSet(h.grid_proj) /\ ProjSet(h.coord_proj) /\ Truthy(h.longitude)
        THEN UpdateGridCentre(h) ELSE h

\* model.py:619-625: the elevation setter
ElevationSet(g, value) ==
    LET h == [g EXCEPT !.elevation = value]
    IN  IF /\ ProjSet(h.grid_proj) /\ ProjSet(h.coord_proj)
           /\ Truthy(h.longitude) /\ Truthy(h.latitude)
        THEN UpdateGridCentre(h) ELSE h

\* model.py:656-660: the grid_proj setter
GridProjSet(g, value) ==
    LET h == [g EXCEPT !.grid_proj = Some(value)]
    IN  IF ProjSet(h.coord_proj) /\ Truthy(h.longitude) /\ Truthy(h.latitude)
        THEN UpdateGridCentre(h) ELSE h

\* model.py:520-524: _update_coord_centre(): longitude and latitude are
\* assigned, through their setters, from the grid centre
UpdateCoordCentre(g) ==
    LET lonlat == Transform(Val(g.grid_proj), Val(g.coord_proj),
                            g.grid_centre[1] \div 2, g.grid_centre[2] \div 2)
    IN  LatitudeSet(LongitudeSet(g, lonlat[1]), lonlat[2])

\* model.py:667-671: the coord_proj setter
CoordProjSet(g, value) ==
    LET h == [g EXCEPT !.coord_proj = Some(value)]
    IN  IF ProjSet(h.grid_proj) /\ Truthy(h.longitude) /\ Truthy(h.latitude)
        THEN UpdateCoordCentre(h) ELSE h

\* model.py:470-487: lonlat_centre(longitude, latitude); an argument left
\* out is None
LonlatCentre(g, longitude, latitude) ==
    LET h == IF Truthy(longitude) THEN LongitudeSet(g, Val(longitude)) ELSE g
    IN  IF Truthy(latitude) THEN LatitudeSet(h, Val(latitude)) ELSE h

\* an assignment to longitude, latitude, elevation, grid_proj or coord_proj,
\* or a lonlat_centre call (model.py:470-487, 590-671)
SetCentre ==
    /\ gops < OpsBound
    /\ \/ \E v \in LonLatValues :
             /\ grid' = LongitudeSet(grid, v)
             /\ gop' = Op("longitude", <<v>>, FALSE, FALSE)
       \/ \E v \in LonLatValues :
             /\ grid' = LatitudeSet(grid, v)
             /\ gop' = Op("latitude", <<v>>, FALSE, FALSE)
       \/ \E v \in ElevationValues :
             /\ grid' = ElevationSet(grid, v)
             /\ gop' = Op("elevation", <<v>>, FALSE, FALSE)
       \/ \E v \in GridProjs :
             /\ grid' = GridProjSet(grid, v)
             /\ gop' = Op("grid_proj", <<v>>, FALSE, FALSE)
       \/ \E v \in CoordProjs :
             /\ grid' = CoordProjSet(grid, v)
             /\ gop' = Op("coord_proj", <<v>>, FALSE, FALSE)
       \/ \E lon \in LonLatValues, lat \in LonLatValues :
             /\ grid' = LonlatCentre(grid, Some(lon), Some(lat))
             /\ gop' = Op("lonlat_centre", <<lon, lat>>, FALSE, FALSE)
    /\ gops' = gops + 1
    /\ gq' = None
    /\ UNCHANGED restVars

\* model.py:707-709: index2loc(value): np.unravel_index of a flat index in
\* the sort order of the grid, an integer cell position
Index2Loc(g, i) ==
    LET cc == g.cell_count
    IN  IF g.sort_order = "C"
        THEN <<i \div (cc[2] * cc[3]), (i \div cc[3]) % cc[2], i % cc[3]>>
        ELSE <<i % cc[1], (i \div cc[1]) % cc[2], i \div (cc[1] * cc[2])>>

\* model.py:698-700: xyz2loc(value) with azimuth = dip = 0: the cell position
\* (xyz - grid_centre) / cell_size + (cell_count - 1) / 2, a float64 array
\* whatever the input; each component is kept as the fraction num / den
Xyz2Loc(g, xyz) ==
    [dtype |-> "float64",
     val |-> [a \in 1..3 |->
                [num |-> xyz[a] - g.grid_centre[a]
                             + g.cell_size[a] * (g.cell_count[a] - 1),
                 den |-> 2 * g.cell_size[a]]]]

\* model.py:703-705: index2loc(value, inverse=True): np.ravel_multi_index
\* with mode="clip".  It takes integer arrays only: a float64 array raises
\* TypeError (None here).
Loc2Index(g, loc) ==
    IF loc.dtype # "int64" THEN None
    ELSE LET cc == g.cell_count
             n == [a \in 1..3 |->
                      LET t == loc.val[a].num \div loc.val[a].den
                      IN  IF t < 0 THEN 0
                          ELSE IF t > cc[a] - 1 THEN cc[a] - 1 ELSE t]
         IN  Some(IF g.sort_order = "C"
                  THEN (n[1] * cc[2] + n[2]) * cc[3] + n[3]
                  ELSE (n[3] * cc[2] + n[2]) * cc[1] + n[1])

\* model.py:711-713: xyz2index(value, inverse=True), in half units
Index2Xyz(g, i) ==
    LET loc == Index2Loc(g, i)
    IN  Loc2Xyz(g, [a \in 1..3 |-> 2 * loc[a]])

\* model.py:714-715: xyz2index(value); None when it raises
Xyz2Index(g, xyz) == Loc2Index(g, Xyz2Loc(g, xyz))

\* the flat indices of the grid
FlatIndices(g) == 0..(g.cell_count[1] * g.cell_count[2] * g.cell_count[3] - 1)

\* distances, in half units, from a cell position to the queried points
XyzOffsets == {<<0, 0, 0>>, <<1, 0, 0>>, <<0, -1, 1>>}

\* model.py:711-715: the round trips index -> xyz -> index and
\* xyz -> index -> xyz, the second from a point at offset off from the cell i
LutXyz2Index ==
    /\ gops < OpsBound
    /\ \E i \in FlatIndices(grid), off \in XyzOffsets :
         LET xyz == [a \in 1..3 |-> Index2Xyz(grid, i)[a] + off[a]]
             idx == Xyz2Index(grid, xyz)
         IN  /\ gq' = Some([index |-> i,
                            index_back |-> Xyz2Index(grid, Index2Xyz(grid, i)),
                            xyz |-> xyz,
                            xyz_back |-> IF idx = None THEN None
                                         ELSE Some(Index2Xyz(grid, Val(idx)))])
             /\ gop' = Op("xyz2index", <<i>>, FALSE, idx = None)
    /\ gops' = gops + 1
    /\ UNCHANGED <<grid, restVars>>

\* the object while other parts of the program are looked at
GridIdle ==
    /\ grid = NewGrid(<<1, 1, 1>>, <<1, 1, 1>>, <<>>, "C")
    /\ gop = Op("none", <<>>, FALSE, FALSE)
    /\ gops = 0
    /\ gq = None

----------------------------------------------------------------------------
(* _gaussian_trigger and _arrival_trigger.  An onset function is a sequence  *)
(* of small integers; thresholds are counted in hundredths so that a         *)
(* percentile is an integer.                                                 *)

\* samples of the onset functions
OnsetLen == 6

OnsetValues == {0, 1, 2}

Onsets == [1..OnsetLen -> OnsetValues]

\* pt_idx, st_idx and int((marginal_window + percent_tt * ttime) *
\* sampling_rate) of scan.py:1298-1333, the same for both phases
PickTimings == {<<1, 4, 3>>, <<1, 4, 1>>, <<2, 2, 3>>, <<1, 2, 3>>, <<1, 5, 3>>}

\* longer onset functions: a sample of 2 and a sample of 1 over zeros
LongOnsetLen == 12

LongOnsets ==
    {[i \in 1..LongOnsetLen |-> IF i = a THEN 2 ELSE IF i = b THEN 1 ELSE 0] :
        a \in 3..(LongOnsetLen - 1), b \in 3..(LongOnsetLen - 1)}

\* pt_idx, st_idx and margin for the longer onset functions
LongPickTimings == {<<6, 16, 5>>}

\* the onset functions with the arrival times they are picked at
PickInputs ==
    {<<onset, timing>> : onset \in Onsets, timing \in PickTimings}
        \cup {<<onset, timing>> :
                  onset \in LongOnsets, timing \in LongPickTimings}

\* popt of a curve_fit that returns: height, mean, sigma
FitResults == {<<2, 3, 1>>, <<1, 2, -2>>, <<1, 2, 0>>}

\* self.pick_threshold * 100 (scan.py:249, 1369)
PickThreshold100 == 100

\* int(x) of Python for x = a2 / 2: truncation towards zero
TruncHalf(a2) == IF a2 >= 0 THEN a2 \div 2 ELSE -((-a2) \div 2)

\* the 0-based indices that the slice [a:b] selects in a sequence of length n
SliceIdx(n, a, b) ==
    LET lo == IF a < 0 THEN Max2(a + n, 0) ELSE IF a > n THEN n ELSE a
        hi == IF b < 0 THEN Max2(b + n, 0) ELSE IF b > n THEN n ELSE b
    IN  {i \in 0..(n - 1) : lo <= i /\ i < hi}

\* s[a:b] of Python
PySlice(s, a, b) ==
    LET I == SliceIdx(Len(s), a, b)
    IN  IF I = {} THEN <<>>
        ELSE [j \in 1..Cardinality(I) |-> s[SetMin(I) + j]]

\* the k-th smallest element of s, k from 1
KthSmallest(s, k) ==
    CHOOSE v \in {s[i] : i \in DOMAIN s} :
        /\ Cardinality({i \in DOMAIN s : s[i] < v}) < k
        /\ k <= Cardinality({i \in DOMAIN s : s[i] <= v})

\* 100 * np.percentile(s, q) of a non-empty s (linear interpolation)
Percentile100(s, q) ==
    LET pos == q * (Len(s) - 1)
        k   == pos \div 100
        r   == pos % 100
    IN  IF r = 0 THEN 100 * KthSmallest(s, k + 1)
        ELSE 100 * KthSmallest(s, k + 1)
               + r * (KthSmallest(s, k + 2) - KthSmallest(s, k + 1))

\* np.argmax of a non-empty sequence, 0-based
SeqArgmax(s) ==
    SetMin({i \in 0..(Len(s) - 1) : \A j \in DOMAIN s : s[j] <= s[i + 1]})

\* scan.py:1298-1351: win_min and win_max of the phase, and the two windows
PickWindows(timing, phase) ==
    LET pt == timing[1]
        st == timing[2]
        m  == timing[3]
        pmin == TruncHalf(2 * pt - (st - pt))
        pmax == TruncHalf(2 * pt + (st - pt))
        smin == TruncHalf(2 * st - (st - pt))
        smax == TruncHalf(2 * st + (st - pt))
        P == <<Max2(pmin, pt - m), -Max2(-pmax, -(pt + m))>>
        S == <<Max2(smin, st - m), -Max2(-smax, -(st + m))>>
    IN  [P |-> P, S |-> S, win |-> IF phase = "P" THEN P ELSE S]

\* scan.py:1361-1371: 100 * threshold; <<>> for the nan of an empty array
PickThresholdOf(onset, w) ==
    LET n == Len(onset)
        masked == SliceIdx(n, w.P[1], w.P[2]) \cup SliceIdx(n, w.S[1], w.S[2])
        onset_threshold == SelectSeq([i \in 1..n |->
                                         IF (i - 1) \in masked THEN -1
                                         ELSE onset[i]],
                                     LAMBDA v : v > -1)
        onset_trim == PySlice(onset, w.win[1], w.win[2])
    IN  IF onset_threshold = <<>> THEN None
        ELSE Some(Max2(Percentile100(onset_threshold, PickThreshold100),
                       Percentile100(onset_trim, 88)))

\* the result of one _gaussian_trigger call; branch is the part of the
\* function that ended it
Pick(branch, max_onset, sigma, mean) ==
    [raised |-> branch = "raise", branch |-> branch, max_onset |-> max_onset,
     sigma |-> sigma, mean |-> mean]

\* scan.py:1446-1463: the sentinels
SentinelPick(branch) == Pick(branch, -1, -1, -1)

\* scan.py:1378: exceedence, the 0-based positions in onset_trim above the
\* threshold
Exceedence(onset_trim, thr) ==
    SelectSeq([i \in 1..Len(onset_trim) |->
                  IF 100 * onset_trim[i] > thr THEN i - 1 ELSE -1],
              LAMBDA v : v > -1)

\* scan.py:1384-1395: exceedence_dist; the last entry is never written
ExceedenceDist(exceedence) ==
    [e \in 1..Len(exceedence) |->
        IF e = Len(exceedence) THEN 0
        ELSE 1 + Cardinality({j \in 1..(e - 1) :
                                  exceedence[j + 1] # exceedence[j] + 1})]

\* scan.py:1397-1403: gau_idxmin and gau_idxmax
GauIdx(onset_trim, exceedence, win_min) ==
    LET dist == ExceedenceDist(exceedence)
        top == SeqArgmax([e \in 1..Len(exceedence) |->
                             onset_trim[exceedence[e] + 1]])
        run == {e \in 1..Len(exceedence) : dist[e] = dist[top + 1]}
    IN  <<exceedence[SetMin(run)] + win_min - 1,
          exceedence[SetMax(run)] + win_min + 2>>

\* scan.py:1374-1377: onset[max_onset] >= threshold and tmp
TakesFit(onset_trim, peak, thr) ==
    /\ 100 * peak >= thr
    /\ \E i \in DOMAIN onset_trim : 100 * onset_trim[i] # thr

\* scan.py:1251-1465: _gaussian_trigger; fit is what curve_fit does when its
\* arguments are well formed: a popt, or None when it raises
GaussianTrigger(onset, phase, timing, fit) ==
    LET w == PickWindows(timing, phase)
        win_min == w.win[1]
        onset_trim == PySlice(onset, w.win[1], w.win[2])
    IN  IF onset_trim = <<>>
        THEN Pick("raise", 0, 0, 0)               \* 1355: np.argmax of nothing
        ELSE
        LET at == SeqArgmax(onset_trim) + win_min
            peak == onset[(IF at < 0 THEN at + Len(onset) ELSE at) + 1]
            thr == PickThresholdOf(onset, w)
        IN  IF thr = None \/ ~TakesFit(onset_trim, peak, Val(thr))
            THEN SentinelPick("else")          \* 1457-1463
            ELSE
            LET exceedence == Exceedence(onset_trim, Val(thr))
            IN  IF exceedence = <<>>
                THEN Pick("raise", 0, 0, 0)       \* 1398: np.argmax of nothing
                ELSE
                LET gau == GauIdx(onset_trim, exceedence, win_min)
                    y_data == PySlice(onset, gau[1], gau[2])
                IN  IF Len(y_data) # gau[2] - gau[1] \/ fit = None
                    THEN SentinelPick("except") \* 1448-1454
                    ELSE Pick("fit", Val(fit)[1],
                              IF Val(fit)[3] < 0 THEN -Val(fit)[3]
                              ELSE Val(fit)[3],
                              Val(fit)[2])

\* scan.py:1410-1412: the 0-based samples of the onset given to the fit as
\* y_data, when the call comes to the fit
FitSamples(onset, phase, timing) ==
    LET w == PickWindows(timing, phase)
        onset_trim == PySlice(onset, w.win[1], w.win[2])
        thr == PickThresholdOf(onset, w)
        exceedence == Exceedence(onset_trim, Val(thr))
        gau == GauIdx(onset_trim, exceedence, w.win[1])
    IN  IF GaussianTrigger(onset, phase, timing, None).branch # "except"
        THEN {}
        ELSE SliceIdx(Len(onset), gau[1], gau[2])

\* the 0-based samples of the pick window above the threshold that form one
\* run with the first maximum of the window, and one sample on each side
PeakRunAndSides(onset, phase, timing) ==
    LET w == PickWindows(timing, phase)
        W == SliceIdx(Len(onset), w.win[1], w.win[2])
        thr == PickThresholdOf(onset, w)
        above == {i \in W : 100 * onset[i + 1] > Val(thr)}
        p == SetMin({i \in W : \A j \in W : onset[j + 1] <= onset[i + 1]})
        run == {i \in above : \A j \in W :
                   (j <= SetMax({i, p}) /\ j >= SetMin({i, p})) => j \in above}
    IN  (SetMin(run) - 1)..(SetMax(run) + 1)

\* the first maximum of the pick window is above the threshold
PeakExceeds(onset, phase, timing) ==
    LET w == PickWindows(timing, phase)
        W == SliceIdx(Len(onset), w.win[1], w.win[2])
        thr == PickThresholdOf(onset, w)
    IN  /\ W # {}
        /\ thr # None
        /\ \E i \in W : 100 * onset[i + 1] > Val(thr)

\* what the specification promises of the same call: no sample of the pick
\* window above the threshold
NoExceedence(onset, phase, timing) ==
    LET w == PickWindows(timing, phase)
        thr == PickThresholdOf(onset, w)
    IN  \A i \in SliceIdx(Len(onset), w.win[1], w.win[2]) :
            thr # None /\ 100 * onset[i + 1] <= Val(thr)

\* scan.py:299-302: the class attribute DEFAULT_GAUSSIAN_FIT as the module
\* defines it: PickValue -1 and no PickThreshold key (None; Some(threshold)
\* once the key is written)
DefaultGaussianFit == [PickValue |-> -1, PickThreshold |-> None]

\* scan.py:1440-1459: the gaussian_fit a call returns, with the threshold the
\* call computed: a dict of its own after a fit, the class attribute itself
\* in the two sentinel branches
GaussianFit(branch, threshold) ==
    [ref |-> IF branch = "fit" THEN "own" ELSE "DEFAULT_GAUSSIAN_FIT",
     threshold |-> threshold]

\* scan.py:1450 and 1459: gaussian_fit["PickThreshold"] = threshold, written
\* to the dict gaussian_fit names
DefaultAfter(default, fit) ==
    IF fit.ref = "own" THEN default
    ELSE [default EXCEPT !.PickThreshold = Some(fit.threshold)]

\* scan.py:1496-1502: the picks frame before the loop
PickInit ==
    pk = [rows |-> <<>>, idx |-> 0, raised |-> FALSE, written |-> FALSE,
          last |-> <<>>, gauss |-> <<>>, default |-> DefaultGaussianFit]

PickIdle == PickInit

\* scan.py:1523-1529: the _gaussian_trigger calls of a phase over the onset
\* functions, arrival times and fits, each with the facts of its input that
\* the specification speaks of
PickCalls ==
    {LET onset == inp[1]
         timing == inp[2]
         g == GaussianTrigger(onset, phase, timing, fit)
         exceeds == PeakExceeds(onset, phase, timing)
     IN  [Phase |-> phase,
          g |-> g,
          noexceed |-> NoExceedence(onset, phase, timing),
          fitfail |-> g.branch = "except",
          gau |-> GaussianFit(g.branch,
                              IF g.branch = "raise" THEN None
                              ELSE PickThresholdOf(onset,
                                                   PickWindows(timing, phase))),
          facts |-> [exceeds |-> exceeds,
                     y_data |-> FitSamples(onset, phase, timing),
                     run |-> IF exceeds
                             THEN PeakRunAndSides(onset, phase, timing)
                             ELSE {},
                     win |-> PickWindows(timing, phase).win,
                     len |-> Len(onset)]] :
        phase \in {"P", "S"}, inp \in PickInputs,
        fit \in {Some(f) : f \in FitResults} \cup {None}}

\* scan.py:1503-1538: one pass of the inner loop, for station idx \div 2 and
\* phase P (idx even) or S (idx odd)
PickPhase ==
    /\ pk.idx < 2 * NStations
    /\ ~pk.raised
    /\ \E call \in PickCalls :
          /\ call.Phase = (IF pk.idx % 2 = 0 THEN "P" ELSE "S")
          /\ IF call.g.raised
             THEN pk' = [pk EXCEPT !.raised = TRUE, !.last = Some(call.facts)]
             ELSE pk' = [pk EXCEPT
                           !.last = Some(call.facts),
                           !.rows = Append(@,
                               [Name |-> pk.idx \div 2, Phase |-> call.Phase,
                                PickTime |-> call.g.mean,
                                PickError |-> call.g.sigma,
                                SNR |-> call.g.max_onset,
                                noexceed |-> call.noexceed,
                                fitfail |-> call.fitfail]),
                           !.gauss = Append(@, call.gau),
                           !.default = DefaultAfter(@, call.gau),
                           !.idx = @ + 1]
    /\ UNCHANGED <<gridVars, computeVars, onsetVars, cfgVars, trigVars, scanVars>>

\* scan.py:1540-1542: the frame is written and returned
WritePicks ==
    /\ pk.idx = 2 * NStations
    /\ ~pk.written
    /\ pk' = [pk EXCEPT !.written = TRUE]
    /\ UNCHANGED <<gridVars, computeVars, onsetVars, cfgVars, trigVars, scanVars>>

----------------------------------------------------------------------------
(* _compute on the windows that read_mseed delivers *)

\* windows given to _compute
MaxWindows == 2

\* what ilib.scan leaves in map_ for a cell and a sample (scan.py:1004)
RawCoaValues == {0, 2}

\* cells of the decimated grid
NCells == 2

\* samples of a window
WindowSamples == 2

\* self.data.availability: 1 for a station with data in the window
Availabilities == [1..NStations -> {0, 1}]

\* scan.py:953: avail_idx
AvailIdx(station_availability) ==
    {i \in DOMAIN station_availability : station_availability[i] = 1}

\* the quotient of a float64 by an integer in numpy, kept as a fraction: a
\* division by 0 gives nan or inf and a RuntimeWarning
FloatDiv(num, den) ==
    IF den # 0 THEN [kind |-> "finite", num |-> num, den |-> den]
    ELSE IF num = 0 THEN [kind |-> "nan", num |-> 0, den |-> 0]
    ELSE [kind |-> "inf", num |-> 0, den |-> 0]

\* the product of a float64 and an integer: nan stays nan, inf * 0 is nan
FloatMul(x, n) ==
    IF x.kind = "finite" THEN [x EXCEPT !.num = @ * n]
    ELSE IF x.kind = "inf" /\ n = 0 THEN FloatDiv(0, 0)
    ELSE x

\* the maps ilib.scan stacks for a window: map_[t][cell]
CoaMaps == [1..WindowSamples -> [1..NCells -> RawCoaValues]]

\* ilib.detect: the largest value of a sample over the cells
DetectMax(m) == SetMax({m[cell] : cell \in DOMAIN m})

\* ilib.detect: the first cell holding the largest value of a sample
DetectArgmax(m) == SetMin({cell \in DOMAIN m : m[cell] = DetectMax(m)})

\* scan.py:1016: np.sum(map_, axis=(0, 1, 2)) for one sample
RECURSIVE SumCoa(_, _)
SumCoa(m, cell) == IF cell = 0 THEN 0 ELSE SumCoa(m, cell - 1) + m[cell]

\* scan.py:949-1024: _compute; dsnr[t] is exp(q - 1) for the q kept here,
\* dloc is kept as the cell index, and map_ is divided by sum_coa and
\* multiplied by it again
Compute(raw, station_availability) ==
    LET avail_idx == AvailIdx(station_availability)
        sum_coa == [t \in DOMAIN raw |-> SumCoa(raw[t], NCells)]
        map_norm == [t \in DOMAIN raw |->
                        [cell \in 1..NCells |-> FloatDiv(raw[t][cell], sum_coa[t])]]
    IN  [raised |-> FALSE,
         navail |-> Cardinality(avail_idx),
         dsnr |-> [t \in DOMAIN raw |->
                      FloatDiv(DetectMax(raw[t]), Cardinality(avail_idx) * 2)],
         dsnr_norm |-> [t \in DOMAIN raw |->
                           FloatDiv(DetectMax(raw[t]) * NCells, sum_coa[t])],
         dloc |-> [t \in DOMAIN raw |-> DetectArgmax(raw[t])],
         map_ |-> [t \in DOMAIN raw |->
                      [cell \in 1..NCells |-> FloatMul(map_norm[t][cell], sum_coa[t])]]]

ComputeInit ==
    cw = [pc |-> "read", n |-> 0, availability |-> <<>>, raw |-> <<>>,
          out |-> <<>>]

ComputeIdle == ComputeInit

\* scan.py:587 and 928: self.data.read_mseed(w_beg, w_end, sampling_rate)
ReadMseed ==
    /\ cw.pc = "read"
    /\ cw.n < MaxWindows
    /\ \E a \in Availabilities, raw \in CoaMaps :
          cw' = [cw EXCEPT !.pc = "compute", !.n = @ + 1,
                           !.availability = a, !.raw = raw]
    /\ UNCHANGED <<gridVars, pickVars, onsetVars, cfgVars, trigVars, scanVars>>

\* scan.py:588-590 and 930-933: the _compute call on the window read
ComputeWindow ==
    /\ cw.pc = "compute"
    /\ cw' = [cw EXCEPT !.pc = "read",
                        !.out = Append(@, Compute(cw.raw, cw.availability))]
    /\ UNCHANGED <<gridVars, pickVars, onsetVars, cfgVars, trigVars, scanVars>>

----------------------------------------------------------------------------
(* The onset functions: sta_lta_centred, onset, and the mode detect() and    *)
(* locate() compute them in.  A ratio is kept as the fraction FloatDiv       *)
(* gives; onset() returns it as onset_raw, and log(max(1 + ratio, 0.8)) of   *)
(* it as the onset.                                                          *)

\* samples of a signal
SignalLen == 4

\* values of a filtered signal
SignalValues == {-1, 0, 1}

Signals == [1..SignalLen -> SignalValues]

\* nsta and nlta, in samples (scan.py:1044-1045)
StaLtaWindows == {<<1, 3>>, <<2, 3>>}

\* detect() and locate() calls looked at on one scanner
MaxOnsetCalls == 2

RECURSIVE SumSq(_, _)
\* np.cumsum(a ** 2) at the 0-based index i
SumSq(a, i) == IF i < 0 THEN 0 ELSE SumSq(a, i - 1) + a[i + 1] * a[i + 1]

\* scan.py:157 and 161: x[n:] = x[n:] - x[:-n] on the cumulative sum
WindowSum(a, n, i) ==
    IF i >= n THEN SumSq(a, i) - SumSq(a, i - n) ELSE SumSq(a, i)

\* scan.py:132-172: sta_lta_centred; the statement of line 170 computes
\* lta[idx] - dtiny and assigns nothing
StaLtaCentred(a, nsta, nlta) ==
    LET n == Len(a)
        sta1(i) == WindowSum(a, nsta, i)
        sta2(i) == IF nsta <= i /\ i < n - nsta THEN sta1(i + nsta) ELSE sta1(i)
        sta(i) == IF i < nlta - 1 \/ i >= n - nsta THEN 0 ELSE sta2(i)
        lta(i) == WindowSum(a, nlta, i)
    IN  [k \in 1..n |-> FloatDiv(sta(k - 1) * nlta, lta(k - 1) * nsta)]

\* obspy.signal.trigger.classic_sta_lta (scan.py:12): the short window ends
\* at the sample, and an LTA below the tiny float is replaced by it
ClassicStaLta(a, nsta, nlta) ==
    LET n == Len(a)
        sta(i) == IF i < nlta - 1 THEN 0 ELSE WindowSum(a, nsta, i)
        lta(i) == WindowSum(a, nlta, i)
    IN  [k \in 1..n |->
            IF lta(k - 1) # 0
            THEN FloatDiv(sta(k - 1) * nlta, lta(k - 1) * nsta)
            ELSE IF sta(k - 1) = 0 THEN FloatDiv(0, 1)
            ELSE [kind |-> "huge", num |-> sta(k - 1), den |-> 0]]

RECURSIVE SeqSum(_)
SeqSum(a) == IF a = <<>> THEN 0 ELSE a[1] + SeqSum(Tail(a))

\* scan.py:175-208: onset, for one channel; fn is the function it calls
OnsetFn(sig, stw, ltw, centred) ==
    IF SeqSum(sig) = 0
    THEN [fn |-> "none", centred |-> centred,
          onset_raw |-> [k \in 1..Len(sig) |-> FloatDiv(0, 1)]]
    ELSE IF centred
    THEN [fn |-> "sta_lta_centred", centred |-> centred,
          onset_raw |-> StaLtaCentred(sig, stw, ltw)]
    ELSE [fn |-> "classic_sta_lta", centred |-> centred,
          onset_raw |-> ClassicStaLta(sig, stw, ltw)]

\* the onset functions of the signals, by window and mode
OnsetCalls ==
    {[sig |-> sig, win |-> w, centred |-> centred,
      out |-> OnsetFn(sig, w[1], w[2], centred)] :
        sig \in Signals, w \in StaLtaWindows, centred \in BOOLEAN}

\* scan.py:247 and 351-352: a scanner as SeisScan.__init__ leaves it
OnsetInit(w) ==
    os = [set_onset_centred |-> None, onset_centred |-> FALSE, win |-> w,
          n |-> 0, call |-> "none", sig |-> <<>>, out |-> None]

OnsetIdle == OnsetInit(<<1, 3>>)

\* the user assigns scanner.set_onset_centred
SetOnsetCentred ==
    /\ \E value \in BOOLEAN :
          /\ os.set_onset_centred # Some(value)
          /\ os' = [os EXCEPT !.set_onset_centred = Some(value)]
    /\ UNCHANGED <<gridVars, pickVars, computeVars, cfgVars, trigVars, scanVars>>

\* scan.py:410-442, 1043-1049: the onset function detect() computes of a
\* signal read for a window; detect() leaves self._onset_centred as it is
DetectOnsets ==
    /\ os.n < MaxOnsetCalls
    /\ \E call \in OnsetCalls :
          /\ call.win = os.win
          /\ call.centred = os.onset_centred
          /\ os' = [os EXCEPT !.n = @ + 1, !.call = "detect",
                              !.sig = call.sig, !.out = Some(call.out)]
    /\ UNCHANGED <<gridVars, pickVars, computeVars, cfgVars, trigVars, scanVars>>

\* scan.py:542-547: the mode locate() sets
LocateOnsetCentred(set_onset_centred) ==
    IF set_onset_centred = None THEN TRUE ELSE Val(set_onset_centred)

\* scan.py:503-590, 1043-1049: the onset function locate() computes of the
\* signal read for an event
LocateOnsets ==
    /\ os.n < MaxOnsetCalls
    /\ \E call \in OnsetCalls :
          /\ call.win = os.win
          /\ call.centred = LocateOnsetCentred(os.set_onset_centred)
          /\ os' = [os EXCEPT !.n = @ + 1, !.call = "locate",
                              !.sig = call.sig, !.out = Some(call.out),
                              !.onset_centred = call.centred]
    /\ UNCHANGED <<gridVars, pickVars, computeVars, cfgVars, trigVars, scanVars>>

----------------------------------------------------------------------------
(* detect() and locate() as steps *)

\* the scanner is between calls
Idle == spc \in {"idle", "raised"}

\* scan.py:912: nsteps = ceil((end_time - start_time) / time_step)
NSteps == (end_time - start_time + time_step - 1) \div time_step

\* win, dtmax, event_rows, picks_written and out_log describe the call in
\* progress (or the last one): a call starts with none of them
CallOutputsReset ==
    /\ win' = None
    /\ dtmax' = None
    /\ event_rows' = <<>>
    /\ picks_written' = {}
    /\ out_log' = {}
    /\ decscan_out' = <<>>

\* scan.py:410-442 and 907-912: detect() up to the window loop
DetectBegin ==
    /\ Idle
    /\ calls < MaxCalls
    /\ calls' = calls + 1
    /\ last_call' = "detect"
    /\ start_time' \in DetectStarts
    /\ \E e \in DetectEnds : end_time' = start_time' + e
    /\ lut' = Decimate(lut, decimate)
    /\ LET p == PrePadOrDefault
           t_length == p + post_pad + time_step
       IN  /\ pre_pad' = Some(p + TaperPad(t_length))
           /\ post_pad' = post_pad + TaperPad(t_length)
    /\ step_i' = 0
    /\ spc' = "detect"
    /\ trig_events' = <<>>
    /\ evt_i' = 0
    /\ CallOutputsReset
    /\ UNCHANGED <<otherVars, cfgVars, trigVars2, scanCfg>>

\* scan.py:1008-1011: the times of the samples _compute returns for the
\* window [w_beg, w_end]: from w_beg + pre_pad to w_end - post_pad, both
\* included, one per sample
Daten(w_beg, w_end) ==
    [k \in 1..(w_end - post_pad - (w_beg + Val(pre_pad)) + 1) |->
        w_beg + Val(pre_pad) + k - 1]

\* the times of a window written without dropping the last one
WrittenTimes_All(daten) == daten

\* scan.py:938-943: write_decscan is given daten[:-1]
WrittenTimes(daten) == SubSeq(daten, 1, Len(daten) - 1)

\* scan.py:917-945: one window of detect; read_mseed or _compute may raise
DetectWindow ==
    /\ spc = "detect"
    /\ step_i < NSteps
    /\ \E ok \in BOOLEAN :
        IF ok
        THEN /\ win' = Some([call |-> "detect",
                             w_beg |-> start_time + time_step * step_i
                                           - Val(pre_pad),
                             w_end |-> start_time + time_step * (step_i + 1)
                                           + post_pad,
                             pre_pad |-> Val(pre_pad),
                             post_pad |-> post_pad])
             /\ decscan_out' = decscan_out \o
                    WrittenTimes(Daten(start_time + time_step * step_i
                                           - Val(pre_pad),
                                       start_time + time_step * (step_i + 1)
                                           + post_pad))
             /\ step_i' = step_i + 1
             /\ spc' = spc
        ELSE /\ spc' = "raised"
             /\ UNCHANGED <<win, step_i, decscan_out>>
    /\ UNCHANGED <<otherVars, cfgVars, trigVars2, scanCfg, start_time, end_time, lut,
                   pre_pad, post_pad, calls, last_call, trig_events, evt_i,
                   dtmax, event_rows, picks_written, out_log>>

\* scan.py:917 and 947: the window loop is over
DetectEnd ==
    /\ spc = "detect"
    /\ ~(step_i < NSteps)
    /\ spc' = "idle"
    /\ UNCHANGED <<otherVars, cfgVars, trigVars2, scanCfg, start_time, end_time, lut,
                   pre_pad, post_pad, calls, last_call, step_i, trig_events,
                   evt_i, win, dtmax, event_rows, picks_written, out_log,
                   decscan_out>>

\* what output.read_triggered_events() returns: n events
TriggeredEvents(n) ==
    [i \in 1..n |-> [EventID |-> EventIdOf(EventSpacing * i),
                     CoaTime |-> EventSpacing * i]]

\* scan.py:503-566: locate() up to the event loop
LocateBegin ==
    /\ Idle
    /\ calls < MaxCalls
    /\ calls' = calls + 1
    /\ last_call' = "locate"
    /\ start_time' = 0
    /\ end_time' = EventSpacing * (MaxEvents + 1)
    /\ \E n \in 0..MaxEvents : trig_events' = TriggeredEvents(n)
    /\ lut' = Decimate(lut, decimate)
    /\ LET p == PrePadOrDefault
           t_length == p + 4 * marginal_window + post_pad
       IN  /\ pre_pad' = Some(p + TaperPad(t_length))
           /\ post_pad' = post_pad + TaperPad(t_length)
    /\ evt_i' = 0
    /\ step_i' = 0
    /\ spc' = "locate"
    /\ CallOutputsReset
    /\ UNCHANGED <<otherVars, cfgVars, trigVars2, scanCfg>>

\* the test of scan.py:603-604 without its lower bound
InsideMarginal_UpperOnly(t, coa_time) == t <= coa_time + marginal_window

\* scan.py:603-604: the re-scanned maximum is inside the marginal window
InsideMarginal(t, coa_time) ==
    /\ t >= coa_time - marginal_window
    /\ t <= coa_time + marginal_window

\* scan.py:599: DT at idxmax of COA (the first maximum); ser[n] is the
\* coalescence at time t0 + n
SeriesArgmax(ser, lo, hi) ==
    CHOOSE p \in lo..hi :
        /\ \A q \in lo..hi : ser[q] <= ser[p]
        /\ \A q \in lo..(p - 1) : ser[q] < ser[p]

\* What a re-scan can return as its coalescence, one value per sample from
\* CoaTime - 2*mw to CoaTime + 2*mw (scan.py:1008-1012): the value 2 at up
\* to MaxPeaks samples, 1 elsewhere
RescanSeriesOf ==
    [mw \in MarginalWindows |->
        {[q \in 0..(4 * mw) |-> IF q \in P THEN 2 ELSE 1] :
            P \in {S \in SUBSET (0..(4 * mw)) : Cardinality(S) <= MaxPeaks}}]

RescanSeries == RescanSeriesOf[marginal_window]

\* scan.py:619-621: the time indices of map_ kept for the marginal map, for
\* the rows lo..hi of the re-scan inside the marginal window:
\* map_[:, :, :, event.index[0]:event.index[-1]]
MapIndices(lo, hi) == lo..(hi - 1)

\* scan.py:568: the event loop has an event to process
InEventLoop == spc = "locate" /\ evt_i < Len(trig_events)

\* scan.py:568-719: one turn of the event loop.  ser is the coalescence the
\* re-scan returns and fail names the call that raises after the re-scan, if
\* one does.
LocateEvent ==
    /\ InEventLoop
    /\ LET event == At(trig_events, evt_i)
           evt_id == event.EventID
           started == out_log \cup {<<"event", evt_id>>}
       IN  \/ \* scan.py:586-590: read_mseed or _compute raises: locate() is
              \* left
              /\ spc' = "raised"
              /\ out_log' = started
              /\ dtmax' = None
              /\ UNCHANGED <<evt_i, win, event_rows, picks_written>>
           \/ \E ser \in RescanSeries :
                LET w_beg == event.CoaTime - 2 * marginal_window - Val(pre_pad)
                    w_end == event.CoaTime + 2 * marginal_window + post_pad
                    t0 == event.CoaTime - 2 * marginal_window
                    n_max == SeriesArgmax(ser, 0, 4 * marginal_window)
                    event_coa_val_dtmax == t0 + n_max
                    \* scan.py:619-622: the rows inside dtmax +- marginal_window
                    lo == Max2(0, n_max - marginal_window)
                    hi == IF n_max + marginal_window > 4 * marginal_window
                          THEN 4 * marginal_window ELSE n_max + marginal_window
                    n_evmax == SeriesArgmax(ser, lo, hi)
                IN  /\ win' = Some([call |-> "locate", w_beg |-> w_beg,
                                    w_end |-> w_end, pre_pad |-> Val(pre_pad),
                                    post_pad |-> post_pad])
                    /\ dtmax' = Some(event_coa_val_dtmax)
                    /\ IF ~InsideMarginal(event_coa_val_dtmax, event.CoaTime)
                       THEN \* scan.py:607-615: message and continue
                            /\ out_log' = started \cup {<<"outside", evt_id>>}
                            /\ evt_i' = evt_i + 1
                            /\ spc' = spc
                            /\ UNCHANGED <<event_rows, picks_written>>
                       ELSE \E fail \in {"none", "pick", "fit"} :
                            IF fail = "pick"
                            THEN \* _arrival_trigger raises before write_picks
                                 /\ spc' = "raised"
                                 /\ out_log' = started
                                 /\ UNCHANGED <<evt_i, event_rows,
                                                picks_written>>
                            ELSE IF fail = "fit"
                            THEN \* _location_error raises after write_picks
                                 /\ spc' = "raised"
                                 /\ out_log' = started
                                 /\ picks_written' = picks_written \cup {evt_id}
                                 /\ UNCHANGED <<evt_i, event_rows>>
                            ELSE \* scan.py:626-649: picks and the event row
                                 /\ picks_written' = picks_written \cup {evt_id}
                                 /\ event_rows' = Append(event_rows,
                                        [EventID |-> evt_id,
                                         DT |-> t0 + n_evmax,
                                         COA |-> ser[n_evmax],
                                         MapTimes |->
                                             {t0 + q : q \in MapIndices(lo, hi)}])
                                 /\ out_log' = started
                                 /\ evt_i' = evt_i + 1
                                 /\ spc' = spc
    /\ UNCHANGED <<otherVars, cfgVars, trigVars2, scanCfg, start_time, end_time, lut,
                   pre_pad, post_pad, calls, last_call, step_i, trig_events,
                   decscan_out>>

\* scan.py:568: the event loop is over
LocateEnd ==
    /\ spc = "locate"
    /\ ~(evt_i < Len(trig_events))
    /\ spc' = "idle"
    /\ UNCHANGED <<otherVars, cfgVars, trigVars2, scanCfg, start_time, end_time, lut,
                   pre_pad, post_pad, calls, last_call, step_i, trig_events,
                   evt_i, win, dtmax, event_rows, picks_written, out_log,
                   decscan_out>>

\* the trigger part of the state while detect() and locate() are looked at
TrigIdle ==
    /\ posArgmax = FALSE
    /\ scn = <<>>
    /\ tpc = "start"
    /\ decscan_reads = 0
    /\ coa_val = <<>>
    /\ c = 0
    /\ init_events = <<>>
    /\ events = None
    /\ triggered_file = <<>>
    /\ pass = 1
    /\ first_events = None

\* scan.py:312-359 and the user's configuration: the scanner before its
\* first call
InitScan ==
    /\ marginal_window \in ScanMarginalWindows
    /\ minimum_repeat = marginal_window
    /\ detection_threshold = 1
    /\ start_time = 0
    /\ end_time = 0
    /\ TrigIdle
    /\ GridIdle
    /\ PickIdle
    /\ OnsetIdle
    /\ ComputeIdle
    /\ \E f \in LutFileParams : lookup_table = LutFile(f[1], f[2], f[3])
    /\ lut = lookup_table
    /\ decimate \in Decimates
    /\ p_onset_win \in OnsetWinsP
    /\ s_onset_win \in OnsetWinsS
    /\ time_step \in TimeSteps
    /\ pre_pad_user \in {None} \cup {Some(v) : v \in UserPrePads}
    /\ pre_pad = pre_pad_user
    /\ post_pad = InitPostPad(MapMax(lookup_table.maps.TIME_S))
    /\ spc = "idle"
    /\ calls = 0
    /\ last_call = "none"
    /\ step_i = 0
    /\ trig_events = <<>>
    /\ evt_i = 0
    /\ win = None
    /\ dtmax = None
    /\ event_rows = <<>>
    /\ picks_written = {}
    /\ out_log = {}
    /\ decscan_out = <<>>

NextScan ==
    \/ DetectBegin
    \/ DetectWindow
    \/ DetectEnd
    \/ LocateBegin
    \/ LocateEvent
    \/ LocateEnd

SpecScan == InitScan /\ [][NextScan]_vars

----------------------------------------------------------------------------
(* The specifications of trigger() *)

\* the scanner part of the state while trigger() is looked at
ScanIdle ==
    /\ lookup_table = LutFile(<<1, 1, 1>>, <<1, 1, 1>>, 1)
    /\ lut = lookup_table
    /\ decimate = <<1, 1, 1>>
    /\ p_onset_win = <<2, 10>>
    /\ s_onset_win = <<2, 10>>
    /\ time_step = 100
    /\ pre_pad_user = None
    /\ pre_pad = None
    /\ post_pad = 0
    /\ spc = "idle"
    /\ calls = 0
    /\ last_call = "none"
    /\ step_i = 0
    /\ trig_events = <<>>
    /\ evt_i = 0
    /\ win = None
    /\ dtmax = None
    /\ event_rows = <<>>
    /\ picks_written = {}
    /\ out_log = {}
    /\ decscan_out = <<>>

\* the state before trigger() is called: a file of T consecutive samples, a
\* configuration from the given sets
TrigInit(T, MWs, MRs, Ths, Wins) ==
    /\ marginal_window \in MWs
    /\ minimum_repeat \in MRs
    /\ detection_threshold \in Ths
    /\ \E w \in Wins : start_time = w[1] /\ end_time = w[2]
    /\ posArgmax \in BOOLEAN
    /\ \E f \in [0..(T - 1) -> CoaValues] :
           scn = [i \in 1..T |-> [DT |-> i - 1, COA |-> f[i - 1], X |-> i - 1]]
    /\ tpc = "start"
    /\ decscan_reads = 0
    /\ coa_val = <<>>
    /\ c = 0
    /\ init_events = <<>>
    /\ events = None
    /\ triggered_file = <<>>
    /\ pass = 1
    /\ first_events = None
    /\ ScanIdle
    /\ GridIdle
    /\ PickIdle
    /\ OnsetIdle
    /\ ComputeIdle

InitTrigger == TrigInit(MaxT, MarginalWindows, MinimumRepeats, Thresholds, Windows)

\* longer files under the default relation minimum_repeat = marginal_window
\* (scan.py:251-252), the lowest threshold and the whole file as the window
InitTriggerLong == TrigInit(MaxTLong, {1}, {1}, {1}, {<<0, MaxTLong - 1>>})

NextTrigger ==
    \/ Trigger
    \/ ReadDecscan
    \/ TriggerScnFilter
    \/ TriggerScnRun
    \/ TriggerScnEvents
    \/ WriteTriggered
    \/ FeedBack

SpecTrigger == InitTrigger /\ [][NextTrigger]_vars

SpecTriggerLong == InitTriggerLong /\ [][NextTrigger]_vars

----------------------------------------------------------------------------
(* The specifications of the Grid3D / LUT object *)

\* the rest of the state while the object is looked at
OthersIdle ==
    /\ marginal_window = 1
    /\ minimum_repeat = 1
    /\ detection_threshold = 1
    /\ start_time = 0
    /\ end_time = 0
    /\ TrigIdle
    /\ ScanIdle

\* sort_order of the object
SortOrders == {"C", "F"}

\* model.py:998-1029 and 1541-1555: a LUT with its travel-time maps
InitLut ==
    /\ \E f \in LutFileParams, order \in SortOrders :
           grid = NewGrid(f[1], f[2], LutFile(f[1], f[2], f[3]).maps, order)
    /\ gop = Op("none", <<>>, FALSE, FALSE)
    /\ gops = 0
    /\ gq = None
    /\ OthersIdle
    /\ PickIdle
    /\ OnsetIdle
    /\ ComputeIdle

NextLut ==
    \/ SetCellCount
    \/ SetCellSize
    \/ LutDecimate
    \/ LutXyz2Index

SpecLut == InitLut /\ [][NextLut]_vars

\* model.py:383-438: a Grid3D after construction
InitCentre ==
    /\ \E cc \in {<<3, 2, 2>>, <<1, 1, 1>>}, cs \in {<<2, 2, 3>>} :
           grid = NewGrid(cc, cs, <<>>, "C")
    /\ gop = Op("none", <<>>, FALSE, FALSE)
    /\ gops = 0
    /\ gq = None
    /\ OthersIdle
    /\ PickIdle
    /\ OnsetIdle
    /\ ComputeIdle

NextCentre ==
    \/ SetCentre
    \/ SetCellCount
    \/ SetCellSize

SpecCentre == InitCentre /\ [][NextCentre]_vars

\* the scanner before its first window
InitCompute ==
    /\ ComputeInit
    /\ PickIdle
    /\ OnsetIdle
    /\ GridIdle
    /\ OthersIdle

NextCompute ==
    \/ ReadMseed
    \/ ComputeWindow

SpecCompute == InitCompute /\ [][NextCompute]_vars

\* scan.py:1484-1502: an _arrival_trigger call at its start
InitPick ==
    /\ PickInit
    /\ ComputeIdle
    /\ OnsetIdle
    /\ GridIdle
    /\ OthersIdle

NextPick ==
    \/ PickPhase
    \/ WritePicks

SpecPick == InitPick /\ [][NextPick]_vars

\* a scanner after construction, with its onset windows
InitOnset ==
    /\ \E w \in StaLtaWindows : OnsetInit(w)
    /\ PickIdle
    /\ ComputeIdle
    /\ GridIdle
    /\ OthersIdle

NextOnset ==
    \/ SetOnsetCentred
    \/ DetectOnsets
    \/ LocateOnsets

SpecOnset == InitOnset /\ [][NextOnset]_vars

----------------------------------------------------------------------------
(* Claims about trigger() and _trigger_scn *)

\* the samples of the file at or above the threshold and inside
\* [start_time, end_time]
Above ==
    SelectSeq(scn, LAMBDA r : /\ r.COA >= detection_threshold
                              /\ r.DT >= start_time
                              /\ r.DT <= end_time)

\* _trigger_scn has returned from its run on the file
Returned1 == pass = 1 /\ tpc \in {"returned", "done"}

\* C1: trigger() with minimum_repeat < marginal_window raises before
\* read_decscan() is called and writes no triggered events; with
\* minimum_repeat >= marginal_window the check does not raise.
C1_RepeatContract ==
    /\ (minimum_repeat < marginal_window /\ tpc # "start")
           => (tpc = "raised" /\ decscan_reads = 0 /\ triggered_file = <<>>)
    /\ (tpc = "raised" /\ decscan_reads = 0)
           => minimum_repeat < marginal_window

C1_Witness == tpc = "raised" /\ decscan_reads = 0 /\ minimum_repeat = 0

\* C2: any two distinct events of one run are at least minimum_repeat apart:
\* the later one's CoaTime - marginal_window is after the earlier one's MaxTime.
C2_EventsSeparated ==
    Returned1 =>
        \A i, j \in 1..Len(events) :
            i < j =>
                /\ events[j].CoaTime - events[i].CoaTime >= minimum_repeat
                /\ events[j].CoaTime - marginal_window > events[i].MaxTime

\* what an event is compared by: time, value and location
EventKey(ev) == <<ev.CoaTime, ev.COA_V, ev.COA_X>>

KeysOf(evs) == [i \in 1..Len(evs) |-> EventKey(evs[i])]

\* C3: _trigger_scn run on its own events returns the same events (count,
\* CoaTime, COA_V, location), and does not raise.
C3_Idempotent ==
    pass = 2 =>
        /\ tpc # "raised"
        /\ tpc = "returned" => KeysOf(events) = KeysOf(first_events)

\* C4: when no sample inside [start_time, end_time] reaches the threshold,
\* _trigger_scn returns None without raising and trigger() writes nothing.
C4_NoneAboveThreshold ==
    (Len(Above) = 0 /\ ~RepeatCheckFails) =>
        /\ tpc \in {"start", "read", "filter", "returned", "done"}
        /\ tpc \in {"returned", "done"} => events = None
        /\ triggered_file = <<>>

C4_Witness ==
    /\ tpc = "done"
    /\ Len(Above) = 0
    /\ events = None
    /\ \E i \in 1..Len(scn) : scn[i].COA >= detection_threshold

\* the samples above the threshold are one run of consecutive samples of one
\* value
OnePlateau ==
    /\ Len(Above) >= 1
    /\ \A i \in 1..(Len(Above) - 1) : Above[i + 1].DT = Above[i].DT + 1
    /\ \A i \in 1..Len(Above) : Above[i].COA = Above[1].COA

\* C5: a single run of consecutive samples of one value gives exactly one
\* event, at the centre of the run, and no error.
C5_PlateauCentre ==
    (OnePlateau /\ ~RepeatCheckFails /\ pass = 1) =>
        /\ tpc # "raised"
        /\ tpc \in {"returned", "done"} =>
               /\ Len(events) = 1
               /\ 2 * events[1].CoaTime = Above[1].DT + Above[Len(Above)].DT

----------------------------------------------------------------------------
(* Claims about locate() and the pads *)

\* C6: in locate, an error raised while one event is processed aborts that
\* event only: the loop goes on to the next triggered event and the event
\* rows written for earlier events stay written.
C6_ErrorAbortsOneEvent ==
    [][InEventLoop =>
          /\ spc' = "locate"
          /\ evt_i' = evt_i + 1
          /\ Len(event_rows') >= Len(event_rows)
          /\ SubSeq(event_rows', 1, Len(event_rows)) = event_rows]_vars

\* the re-scan of the event in turn has returned in this step
Rescanned == InEventLoop /\ dtmax' # None

\* the re-scanned maximum of this step is outside the marginal window of the
\* event in turn
RescanOutside ==
    LET coa_time == At(trig_events, evt_i).CoaTime
    IN  \/ Val(dtmax') < coa_time - marginal_window
        \/ Val(dtmax') > coa_time + marginal_window

\* C7: in locate, an event whose re-scanned maximum lies outside
\* [CoaTime - marginal_window, CoaTime + marginal_window] is dropped: no event
\* row and no picks are written for it, a message with its event id is
\* logged, and the loop proceeds to the next event; and every event row that
\* is written has its time within marginal_window of the triggered CoaTime.
C7_OutsideDropped ==
    /\ [][(Rescanned /\ RescanOutside) =>
             /\ event_rows' = event_rows
             /\ picks_written' = picks_written
             /\ <<"outside", At(trig_events, evt_i).EventID>> \in out_log'
             /\ evt_i' = evt_i + 1
             /\ spc' = "locate"]_vars
    /\ [](\A n \in 1..Len(event_rows) :
             \E k \in 1..Len(trig_events) :
                 /\ trig_events[k].EventID = event_rows[n].EventID
                 /\ event_rows[n].DT >= trig_events[k].CoaTime - marginal_window
                 /\ event_rows[n].DT <= trig_events[k].CoaTime + marginal_window)

\* one call of locate() has dropped one event as outside and written the row
\* of another
C7_Witness ==
    /\ last_call = "locate"
    /\ \E k \in 1..Len(trig_events) : <<"outside", trig_events[k].EventID>> \in out_log
    /\ Len(event_rows) >= 1

\* C8: the LUT locate() re-scans with is the LUT as loaded at construction
\* (cell_count, cell_size and travel-time maps), whatever the decimate
\* factors and the calls made before.
C8_LocateFullLut ==
    spc = "locate" =>
        /\ lut.cell_count = lookup_table.cell_count
        /\ lut.cell_size = lookup_table.cell_size
        /\ lut.maps = lookup_table.maps

\* the largest STA and LTA windows, each onset window being [sta, lta]
MaxSta == Max2(p_onset_win[1], s_onset_win[1])

MaxLta == Max2(p_onset_win[2], s_onset_win[2])

\* C9 as stated: with pre_pad left unset, the pre-pad of every detect and
\* locate window is at least max(STA) + 3 * max(LTA).
C9_PrePadStaPlus3Lta ==
    (pre_pad_user = None /\ win # None) =>
        Val(win).pre_pad >= MaxSta + 3 * MaxLta

\* C9 amended: with pre_pad left unset, the pre-pad of every detect and
\* locate window is at least max(LTA) + 3 * max(STA).
C9_PrePadLtaPlus3Sta ==
    (pre_pad_user = None /\ win # None) =>
        Val(win).pre_pad >= MaxLta + 3 * MaxSta

\* a locate window of the second call of a scanner with pre_pad left unset
C9_Witness ==
    /\ pre_pad_user = None
    /\ calls = 2
    /\ win # None
    /\ Val(win).call = "locate"
    /\ Val(win).pre_pad > MaxLta + 3 * MaxSta

\* C10: the post-pad of every scan window is at least 1.05 times the largest
\* S travel time of the LUT, so that the stack index t + tau stays inside the
\* onset array (tau <= pos_smp for every cell and station).
C10_PostPadCoversTravelTime ==
    win # None =>
        /\ 20 * Val(win).post_pad >= 21 * MapMax(lookup_table.maps.TIME_S)
        /\ TauMax(lut) <= PosSmp(Val(win))

----------------------------------------------------------------------------
(* Claims about the windows of detect() *)

\* C11: detect processes ceil((end_time - start_time) / time_step) windows in
\* increasing time order; window i writes exactly the sample times of
\* [start_time + i*time_step, start_time + (i+1)*time_step), so the written
\* times increase by one sample each, without gap or duplicate at the window
\* boundaries, and cover [start_time, end_time).
C11_WindowsInOrder ==
    last_call = "detect" =>
        /\ Len(decscan_out) = step_i * time_step
        /\ \A k \in 1..Len(decscan_out) : decscan_out[k] = start_time + k - 1
        /\ spc = "idle" =>
               /\ step_i * time_step >= end_time - start_time
               /\ (step_i - 1) * time_step < end_time - start_time
               /\ \A t \in start_time..(end_time - 1) :
                      \E k \in 1..Len(decscan_out) : decscan_out[k] = t

\* a detect() call of two windows has returned
C11_Witness ==
    /\ last_call = "detect"
    /\ spc = "idle"
    /\ step_i = 2
    /\ Len(decscan_out) = 2 * time_step

----------------------------------------------------------------------------
(* Claims about LUT.decimate and the cell_count / cell_size setters *)

\* this step is a decimate(ds) call that returned, with every ds >= 1, made
\* on a LUT whose maps have the shape of its cell_count
DecimateReturned ==
    /\ gops' = gops + 1
    /\ gop'.name = "decimate"
    /\ ~gop'.raised
    /\ \A a \in 1..3 : gop'.arg[a] >= 1
    /\ \A id \in DOMAIN grid.maps :
           DOMAIN grid.maps[id] = MapDomain(grid.cell_count)

\* C12: decimate(ds) gives cell_count' = 1 + (cell_count - 1) // ds,
\* cell_size' = cell_size * ds, and every map of shape cell_count' x
\* nstations with map'[i,j,k,s] = map[c1 + (i,j,k)*ds, s], where
\* c1 = (cell_count - ds*(cell_count' - 1) - 1) // 2; stations unchanged.
C12_DecimateMaps ==
    [][DecimateReturned =>
        LET ds == gop'.arg
            cc == grid.cell_count
            ncc == [a \in 1..3 |-> 1 + (cc[a] - 1) \div ds[a]]
            c1 == [a \in 1..3 |-> (cc[a] - ds[a] * (ncc[a] - 1) - 1) \div 2]
        IN  /\ grid'.cell_count = ncc
            /\ grid'.cell_size = [a \in 1..3 |-> grid.cell_size[a] * ds[a]]
            /\ DOMAIN grid'.maps = DOMAIN grid.maps
            /\ \A id \in DOMAIN grid.maps :
                   /\ DOMAIN grid'.maps[id] =
                          {<<i, j, k, st>> : i \in 0..(ncc[1] - 1),
                                            j \in 0..(ncc[2] - 1),
                                            k \in 0..(ncc[3] - 1),
                                            st \in Stations}
                   /\ \A x \in DOMAIN grid'.maps[id] :
                          grid'.maps[id][x] =
                              grid.maps[id][<<c1[1] + x[1] * ds[1],
                                              c1[2] + x[2] * ds[2],
                                              c1[3] + x[3] * ds[3], x[4]>>]]_vars

\* a LUT of cell_count (3, 2, 1) decimated by (3, 2, 2): the cell retained
\* on the x axis is the middle one
C12_Witness ==
    /\ gops = 1
    /\ gop = Op("decimate", <<3, 2, 2>>, FALSE, FALSE)
    /\ grid.cell_count = <<1, 1, 1>>
    /\ DOMAIN grid.maps.TIME_P = MapDomain(<<1, 1, 1>>)

\* the position, in half units, that a grid of centre gc, cell size cs and
\* cell count cc gives to the cell i of axis a
CellPos(gc, cs, cc, i, a) == gc[a] + cs[a] * (2 * i - (cc[a] - 1))

Abs(x) == IF x < 0 THEN 0 - x ELSE x

\* C13: after decimate(ds) the position the decimated grid gives to each of
\* its cells differs, on every axis, by less than one original cell size
\* from the original position of the source cell whose travel times the
\* cell holds.
C13_CentrePreserved ==
    [][DecimateReturned =>
        \A x \in DOMAIN grid'.maps.TIME_P, y \in DOMAIN grid.maps.TIME_P :
            (x[4] = y[4] /\ grid'.maps.TIME_P[x] = grid.maps.TIME_P[y]) =>
                \A a \in 1..3 :
                    Abs(CellPos(grid'.grid_centre, grid'.cell_size,
                                grid'.cell_count, x[a], a)
                        - CellPos(grid.grid_centre, grid.cell_size,
                                  grid.cell_count, y[a], a))
                        < 2 * grid.cell_size[a]]_vars

\* a LUT of cell_count (5, 1, 2) decimated by (3, 2, 2): the retained cells
\* are half a cell off the centre on two axes
C13_Witness ==
    /\ gops = 1
    /\ gop = Op("decimate", <<3, 2, 2>>, TRUE, FALSE)
    /\ grid.cell_count = <<2, 1, 1>>
    /\ DOMAIN grid.maps.TIME_P = MapDomain(<<2, 1, 1>>)

\* this step assigns a value of a wrong shape or with a component <= 0 to
\* cell_count or cell_size
BadAssignment ==
    /\ gops' = gops + 1
    /\ gop'.name \in {"cell_count", "cell_size"}
    /\ \/ Len(gop'.arg) \notin {1, 3}
       \/ \E a \in 1..Len(gop'.arg) : gop'.arg[a] <= 0

\* C15: after any sequence of cell_count / cell_size assignments and
\* decimate calls every component of cell_count and cell_size is positive;
\* an assignment of a non-positive component or of a wrong shape raises and
\* leaves the stored value as it was.
C15_PositiveCells ==
    /\ [](\A a \in 1..3 : grid.cell_count[a] > 0 /\ grid.cell_size[a] > 0)
    /\ [][BadAssignment =>
             /\ gop'.raised
             /\ grid'.cell_count = grid.cell_count
             /\ grid'.cell_size = grid.cell_size]_vars

\* a refused assignment after a decimate call
C15_Witness ==
    /\ gops >= 2
    /\ gop = Op("cell_count", <<0, 2, 2>>, FALSE, TRUE)
    /\ grid.cell_size[1] > 2

----------------------------------------------------------------------------
(* Claims about xyz2index *)

\* the positions, in half units, of the cells of the grid on axis a
CellPositions(g, a) ==
    {CellPos(g.grid_centre, g.cell_size, g.cell_count, n, a) :
        n \in 0..(g.cell_count[a] - 1)}

\* C14: for xyz inside the grid, xyz2index(xyz2index(xyz), inverse=True) is
\* the position of the cell nearest to xyz, and for every flat index i,
\* xyz2index(xyz2index(i, inverse=True)) = i, under both sort orders.
C14_IndexRoundTrip ==
    gq # None =>
        /\ Val(gq).index_back = Some(Val(gq).index)
        /\ Val(gq).xyz_back # None
        /\ \A a \in 1..3 :
               /\ Val(Val(gq).xyz_back)[a] \in CellPositions(grid, a)
               /\ \A q \in CellPositions(grid, a) :
                      Abs(Val(Val(gq).xyz_back)[a] - Val(gq).xyz[a])
                          <= Abs(q - Val(gq).xyz[a])

----------------------------------------------------------------------------
(* Claims about the grid centre *)

\* C16: once both projections and the longitude and latitude are set,
\* grid_centre is (project(longitude, latitude), elevation - (nz - 1)*dz/2)
\* for the current values, also when longitude or latitude is 0.
C16_GridCentreCurrent ==
    (/\ grid.grid_proj # None /\ grid.coord_proj # None
     /\ grid.longitude # None /\ grid.latitude # None) =>
        /\ grid.grid_centre[1] =
               2 * (Val(grid.longitude) - 7 * Val(grid.coord_proj)
                        + 7 * Val(grid.grid_proj))
        /\ grid.grid_centre[2] =
               2 * (Val(grid.latitude) - 11 * Val(grid.coord_proj)
                        + 11 * Val(grid.grid_proj))
        /\ grid.grid_centre[3] =
               2 * grid.elevation - (grid.cell_count[3] - 1) * grid.cell_size[3]

----------------------------------------------------------------------------
(* Claims about phase picking *)

\* C17: picking never raises; a pick with no sample above the threshold in
\* its window or with a failed fit is (-1, -1, -1), any other pick has an
\* error >= 0; one row per station and phase, 2 * nstations rows in all.
C17_PickNeverRaises ==
    /\ ~pk.raised
    /\ \A r \in DOMAIN pk.rows :
          LET row == pk.rows[r]
          IN  /\ row.Name = (r - 1) \div 2
              /\ row.Phase = (IF r % 2 = 1 THEN "P" ELSE "S")
              /\ IF row.noexceed \/ row.fitfail
                 THEN row.PickTime = -1 /\ row.PickError = -1 /\ row.SNR = -1
                 ELSE row.PickError >= 0
    /\ pk.written => Len(pk.rows) = 2 * NStations

----------------------------------------------------------------------------
(* Claims about _compute *)

\* C18: a window in which no station is available makes the scanner fail
\* with an error; no coalescence values are returned for it.
C18_NoStationsFails ==
    \A w \in DOMAIN cw.out :
        cw.out[w].navail = 0 => cw.out[w].raised

----------------------------------------------------------------------------
(* Claims about the candidates and the events of _trigger_scn *)

\* the outer while of _trigger_scn has ended
RunsDone == tpc = "runs" /\ ~(c < Len(coa_val) - 1)

\* the 0-based positions at which a maximal run of adjacent samples starts
RunStarts ==
    {p \in 0..(Len(coa_val) - 1) :
        p = 0 \/ At(coa_val, p - 1).DT + 1 # At(coa_val, p).DT}

\* the last position of the maximal run that starts at p
RunLast(p) ==
    SetMin({q \in p..(Len(coa_val) - 1) :
               q = Len(coa_val) - 1 \/ At(coa_val, q).DT + 1 # At(coa_val, q + 1).DT})

\* the start of the k-th maximal run, k from 1
RunStart(k) ==
    CHOOSE p \in RunStarts : Cardinality({q \in RunStarts : q < p}) = k - 1

\* C19: the candidates are the maximal runs of the samples kept, in order:
\* one candidate per run, with the time, value and X of a sample of the run
\* whose coalescence is the maximum of the run; the run with the last sample
\* and the runs of length one included.
C19_OneCandidatePerRun ==
    RunsDone =>
        /\ Len(init_events) = Cardinality(RunStarts)
        /\ \A k \in 1..Len(init_events) :
              \E p \in RunStart(k)..RunLast(RunStart(k)) :
                  /\ \A q \in RunStart(k)..RunLast(RunStart(k)) :
                        At(coa_val, q).COA <= At(coa_val, p).COA
                  /\ init_events[k].CoaTime = At(coa_val, p).DT
                  /\ init_events[k].COA_V = At(coa_val, p).COA
                  /\ init_events[k].COA_X = At(coa_val, p).X

\* _trigger_scn has returned events made from its candidates
Merged == tpc = "returned" /\ events # None

\* the candidates i (0-based) after which the next one starts a new event
Breaks ==
    {i \in 0..(Len(init_events) - 2) :
        At(init_events, i + 1).CoaTime - marginal_window
            > At(init_events, i).MaxTime}

\* the candidates (0-based) of the n-th event
Block(n) ==
    {i \in 0..(Len(init_events) - 1) :
        Cardinality({b \in Breaks : b < i}) = n - 1}

\* C20: candidates i and i + 1 are in the same event exactly when
\* candidate(i + 1).CoaTime - marginal_window <= candidate(i).MaxTime; each
\* event has the CoaTime, value and X of a highest candidate of its group,
\* the smallest MinTime and the largest MaxTime of the group.
C20_MergeOverlapping ==
    Merged =>
        /\ Len(events) = Cardinality(Breaks) + 1
        /\ \A n \in 1..Len(events) :
              /\ \E i \in Block(n) :
                    /\ \A j \in Block(n) :
                          At(init_events, j).COA_V <= At(init_events, i).COA_V
                    /\ events[n].CoaTime = At(init_events, i).CoaTime
                    /\ events[n].COA_V = At(init_events, i).COA_V
                    /\ events[n].COA_X = At(init_events, i).COA_X
              /\ \A j \in Block(n) :
                    /\ events[n].MinTime <= At(init_events, j).MinTime
                    /\ events[n].MaxTime >= At(init_events, j).MaxTime
              /\ \E j \in Block(n) :
                    events[n].MinTime = At(init_events, j).MinTime
              /\ \E j \in Block(n) :
                    events[n].MaxTime = At(init_events, j).MaxTime

\* an event merged from two candidates, the second starting exactly at the
\* MaxTime of the first
C20_Witness ==
    /\ Merged
    /\ Len(events) < Len(init_events)
    /\ \E i \in 0..(Len(init_events) - 2) :
          At(init_events, i + 1).CoaTime - marginal_window
              = At(init_events, i).MaxTime

\* scan.py:1171-1211: the first row c of the run that gave candidate i
\* (0-based)
RECURSIVE RunLo(_)
RunLo(i) == IF i = 0 THEN 0 ELSE RunEnd(coa_val, RunLo(i - 1)) + 1

\* the rows c..d of the run that gave candidate i
RunRows(i) == RunLo(i)..RunEnd(coa_val, RunLo(i))

C22_EverySampleInAnEvent ==
    (coa_val # <<>> /\ tpc \in {"raised", "returned"}) =>
        /\ tpc = "returned"
        /\ events # None
        /\ \A q \in 0..(Len(coa_val) - 1) :
              \E n \in 1..Len(events) :
                  /\ events[n].MinTime <= At(coa_val, q).DT
                  /\ At(coa_val, q).DT <= events[n].MaxTime

----------------------------------------------------------------------------
(* Claims about the marginal window of locate() *)

\* C23: the time samples that enter the marginal coalescence map of an
\* event are exactly the re-scan samples t with
\* t_peak - marginal_window <= t <= t_peak + marginal_window, both ends
\* included, t_peak being the time of the maximum of the re-scan.
C23_MarginalSamples ==
    [][\A n \in 1..Len(event_rows') :
          n > Len(event_rows) =>
              event_rows'[n].MapTimes =
                  {t \in (Val(dtmax') - 2 * marginal_window)
                            ..(Val(dtmax') + 2 * marginal_window) :
                      /\ Val(dtmax') - marginal_window <= t
                      /\ t <= Val(dtmax') + marginal_window}]_vars

----------------------------------------------------------------------------
(* Claims about the samples and windows of a pick *)

\* C24: when the peak of the pick window is above the threshold and the run
\* of samples above the threshold around it has a sample of the onset on
\* each side, the samples given to the fit are that run and one sample on
\* each side, wherever the peak sits in the run.
C24_FitSamplesAreThePeakRun ==
    (/\ pk.last # None
     /\ Val(pk.last).exceeds
     /\ Val(pk.last).run \subseteq 0..(Val(pk.last).len - 1)) =>
        Val(pk.last).y_data = Val(pk.last).run

\* C25: the bounds of the pick window used to slice the onset satisfy
\* 0 <= win_min < win_max <= len(onset), for every arrival.
C25_PickWindowInsideOnset ==
    pk.last # None =>
        /\ 0 <= Val(pk.last).win[1]
        /\ Val(pk.last).win[1] < Val(pk.last).win[2]
        /\ Val(pk.last).win[2] <= Val(pk.last).len

----------------------------------------------------------------------------
(* Claims about the onset functions *)

\* C26: every ratio sta_lta_centred returns is finite, and the ratio is 0 at
\* the first nlta - 1 and the last nsta samples, for every input signal.
C26_CentredRatioFinite ==
    (os.out # None /\ Val(os.out).fn = "sta_lta_centred") =>
        \A k \in 1..SignalLen :
            /\ Val(os.out).onset_raw[k].kind = "finite"
            /\ (k <= os.win[2] - 1 \/ k > SignalLen - os.win[1]) =>
                   Val(os.out).onset_raw[k].num = 0

\* C27: after set_onset_centred is set to True (False), every detect and
\* every locate computes its onsets with the centred (classic) STA/LTA.
C27_ModeFollowsSetting ==
    [][(/\ os'.n = os.n + 1
        /\ os.set_onset_centred # None
        /\ Val(os'.out).fn # "none") =>
           Val(os'.out).fn = IF Val(os.set_onset_centred)
                             THEN "sta_lta_centred"
                             ELSE "classic_sta_lta"]_vars

----------------------------------------------------------------------------
(* Claims about the pads of successive calls *)

\* the pads a call gives its windows on a scanner that has made no call
FreshPads(call) ==
    LET p == IF pre_pad_user = None THEN DefaultPrePad ELSE Val(pre_pad_user)
        q == InitPostPad(MapMax(lookup_table.maps.TIME_S))
        t_length == IF call = "detect" THEN p + q + time_step
                    ELSE p + 4 * marginal_window + q
    IN  <<p + TaperPad(t_length), q + TaperPad(t_length)>>

\* C28: the pre-pad and post-pad of a call's windows are those the same call
\* has on a freshly constructed scanner, whatever calls were made before.
C28_PadsDoNotAccumulate ==
    win # None =>
        <<Val(win).pre_pad, Val(win).post_pad>> = FreshPads(Val(win).call)

----------------------------------------------------------------------------
(* Claims about what _compute returns *)

\* C29: the 4D map _compute returns equals the raw stacked coalescence at
\* every cell and time sample, also where the sum over the cells is zero,
\* and the returned location track is the argmax of the raw map.
C29_ReturnedMapIsRaw ==
    (cw.pc = "read" /\ cw.out # <<>>) =>
        LET o == cw.out[Len(cw.out)]
        IN  \A t \in 1..WindowSamples :
                /\ \A cell \in 1..NCells :
                       /\ o.map_[t][cell].kind = "finite"
                       /\ o.map_[t][cell].num = cw.raw[t][cell] * o.map_[t][cell].den
                /\ \A cell \in 1..NCells : cw.raw[t][o.dloc[t]] >= cw.raw[t][cell]

----------------------------------------------------------------------------
(* Claims about the fit records of _gaussian_trigger *)

\* the PickThreshold read from a returned record
StoredThreshold(fit) ==
    IF fit.ref = "own" THEN Some(fit.threshold) ELSE pk.default.PickThreshold

\* C30: after any sequence of picks, the PickThreshold stored in each record
\* _gaussian_trigger returned is the threshold computed for that pick, and
\* the class-level DEFAULT_GAUSSIAN_FIT is unchanged.
C30_FitRecordsKeepThreshold ==
    /\ \A i \in DOMAIN pk.gauss :
           StoredThreshold(pk.gauss[i]) = Some(pk.gauss[i].threshold)
    /\ pk.default = DefaultGaussianFit

====
